---------------------------- MODULE Spec2Model ----------------------------
(***************************************************************************)
(* HelloTriangleApplication (learn-vulkan): the frame loop of mainLoop /   *)
(* drawFrame with the GPU queues and the presentation engine it talks to,  *)
(* the physical-device selection of pickPhysicalDevice, and the swap-chain *)
(* negotiation of createSwapChain.                                         *)
(*                                                                         *)
(* Three specifications share the variables:                               *)
(*   Spec      the frame loop, from the state initVulkan leaves behind     *)
(*   SpecPick  pickPhysicalDevice over the devices the instance enumerates *)
(*   SpecChain createSwapChain on a suitable device                        *)
(***************************************************************************)
EXTENDS Integers, Sequences, FiniteSets, TLC

(***************************************************************************)
(* Bounds of the model.                                                    *)
(***************************************************************************)
MaxFrames == 3
MaxImages == 2

(***************************************************************************)
(* Program constants.                                                      *)
(***************************************************************************)
EXIT_SUCCESS == 0
EXIT_FAILURE == 1

VARIABLES
    \* ---- host thread: run() / mainLoop() / drawFrame() ----
    pc,                       \* the statement the host thread is at
    frame,                    \* number of drawFrame calls begun
    closeRequested,           \* the user asked to close the window (event not yet polled)
    shouldClose,              \* glfwWindowShouldClose(window)
    imageIndex,               \* drawFrame's local imageIndex
    commandBuffer,            \* the single VkCommandBuffer
    exitCode,                 \* what main returns
    \* ---- synchronisation primitives ----
    inFlightFence,
    imageAvailableSemaphore,
    renderFinishedSemaphore,
    \* ---- device side ----
    swapChainImages,          \* chain slot -> who owns the image
    graphicsQueueWork,        \* submissions outstanding on graphicsQueue
    presentQueueWork,         \* present requests outstanding on presentQueue
    destroyed,                \* cleanup() destroyed the GPU objects
    \* ---- history ----
    lastSubmitted,            \* frame of the last successful vkQueueSubmit
    fenceObserved,            \* frame whose fence signal the host last observed
    driverFailure,            \* first frame call that returned a failure status
    \* ---- pickPhysicalDevice ----
    pickPc,                   \* where pickPhysicalDevice is
    deviceCount,              \* what vkEnumeratePhysicalDevices reported
    devIdx,                   \* position of the range-for over physDevs (from 1)
    physicalDevice,           \* the chosen device, or VK_NULL_HANDLE
    pickError,                \* what pickPhysicalDevice threw
    qualifiedLog,             \* history: for each device examined, does it qualify
    \* ---- createSwapChain ----
    chainPc,                  \* where createSwapChain is
    capabilities,             \* VkSurfaceCapabilitiesKHR of physicalDevice and surface
    framebufferSize,          \* what glfwGetFramebufferSize reports
    swapChainCreateInfo,      \* the VkSwapchainCreateInfoKHR handed to the driver
    chainImageCount,          \* swapChainImages.size() after vkGetSwapchainImagesKHR
    \* ---- the choosers of createSwapChain, called on their own ----
    chooserCall,              \* the chooser last called: its argument and what it returned
    \* ---- initVulkan, stage by stage ----
    initPc,                   \* the stage initVulkan is at
    instanceEnv,              \* what GLFW requires and what the loader offers
    instanceCreateInfo,       \* the VkInstanceCreateInfo handed to vkCreateInstance
    resolvedIndices,          \* history: the families resolved when the device was judged suitable
    queueCreateInfos,         \* the VkDeviceQueueCreateInfo list handed to vkCreateDevice
    graphicsQueue,            \* where vkGetDeviceQueue took graphicsQueue from
    presentQueue,             \* where vkGetDeviceQueue took presentQueue from
    commandPool,              \* the VkCommandPoolCreateInfo of commandPool
    assertFailed,             \* the assert that aborted the process
    \* ---- cleanup ----
    destroyLog                \* history: the destroy calls made, in order

frameVars == <<pc, frame, closeRequested, shouldClose, imageIndex, commandBuffer,
               exitCode, inFlightFence, imageAvailableSemaphore,
               renderFinishedSemaphore, swapChainImages, graphicsQueueWork,
               presentQueueWork, destroyed, lastSubmitted, fenceObserved,
               driverFailure>>

pickVars == <<pickPc, deviceCount, devIdx, physicalDevice, pickError, qualifiedLog>>

chainVars == <<chainPc, capabilities, framebufferSize, swapChainCreateInfo,
               chainImageCount>>

chooseVars == <<chooserCall>>

initVars == <<initPc, instanceEnv, instanceCreateInfo, resolvedIndices,
              queueCreateInfos, graphicsQueue, presentQueue, commandPool, assertFailed>>

cleanupVars == <<destroyLog>>

setupVars == <<pickVars, chainVars, chooseVars, initVars, cleanupVars>>

vars == <<frameVars, setupVars>>

(***************************************************************************)
(* Values.                                                                 *)
(***************************************************************************)
Uninitialized == -1      \* "uint32_t imageIndex;" before anything is stored in it

Unsignaled == [state |-> "unsignaled", by |-> 0]
Signaled(f) == [state |-> "signaled", by |-> f]
Pending(f) == [state |-> "pending", by |-> f]

FreeImage == [owner |-> "free", frame |-> 0]

ImageSlots == DOMAIN swapChainImages
NumImages == Cardinality(ImageSlots)

FramePcs == {"waitFence", "resetFence", "acquire", "record", "submit", "present"}

RemoveAt(s, k) == [j \in 1..(Len(s) - 1) |-> IF j < k THEN s[j] ELSE s[j + 1]]

\* Variant: the fence created without VK_FENCE_CREATE_SIGNALED_BIT.
createSyncPrimitives_Unsignaled ==
    [imageAvailableSemaphore |-> Unsignaled,
     renderFinishedSemaphore |-> Unsignaled,
     inFlightFence |-> "unsignaled"]

(***************************************************************************)
(* createSyncPrimitives: two semaphores and a fence created signaled.      *)
(***************************************************************************)
createSyncPrimitives ==
    [imageAvailableSemaphore |-> Unsignaled,
     renderFinishedSemaphore |-> Unsignaled,
     inFlightFence |-> "signaled"]

(***************************************************************************)
(* The state initVulkan leaves behind: a chain of 1..MaxImages images all  *)
(* owned by the presentation engine, an empty command buffer, idle queues. *)
(***************************************************************************)
InitFrame ==
    /\ pc = "loop"
    /\ frame = 0
    /\ closeRequested = FALSE
    /\ shouldClose = FALSE
    /\ imageIndex = Uninitialized
    /\ commandBuffer = [state |-> "initial", framebuffer |-> Uninitialized, frame |-> 0]
    /\ exitCode = -1
    /\ inFlightFence = createSyncPrimitives.inFlightFence
    /\ imageAvailableSemaphore = createSyncPrimitives.imageAvailableSemaphore
    /\ renderFinishedSemaphore = createSyncPrimitives.renderFinishedSemaphore
    /\ \E n \in 1..MaxImages : swapChainImages = [i \in 0..(n - 1) |-> FreeImage]
    /\ graphicsQueueWork = <<>>
    /\ presentQueueWork = <<>>
    /\ destroyed = FALSE
    /\ lastSubmitted = 0
    /\ fenceObserved = 0
    /\ driverFailure = "none"

\* Variant: main's catch block returning EXIT_SUCCESS.
Throw_ReturnsSuccess ==
    /\ pc' = "exit"
    /\ exitCode' = EXIT_SUCCESS

(***************************************************************************)
(* An exception leaves run(): main catches it and returns EXIT_FAILURE.    *)
(* cleanup() is not reached.                                               *)
(***************************************************************************)
Throw ==
    /\ pc' = "exit"
    /\ exitCode' = EXIT_FAILURE

NoteFailure(call) ==
    driverFailure' = IF driverFailure = "none" THEN call ELSE driverFailure

(***************************************************************************)
(* mainLoop: while (!glfwWindowShouldClose(window)) { glfwPollEvents();    *)
(* drawFrame(); }   vkDeviceWaitIdle(device);                              *)
(***************************************************************************)
MainLoopIterate ==
    /\ pc = "loop"
    /\ ~shouldClose
    /\ frame < MaxFrames
    /\ shouldClose' = closeRequested          \* glfwPollEvents
    /\ frame' = frame + 1
    /\ imageIndex' = Uninitialized
    /\ pc' = "waitFence"
    /\ UNCHANGED setupVars
    /\ UNCHANGED <<closeRequested, commandBuffer, exitCode, inFlightFence,
                   imageAvailableSemaphore, renderFinishedSemaphore, swapChainImages,
                   graphicsQueueWork, presentQueueWork, destroyed, lastSubmitted,
                   fenceObserved, driverFailure>>

\* Variant: the close request also looked at when the recording is about to begin.
MainLoopExit_MidFrame ==
    /\ \/ pc = "loop" /\ shouldClose
       \/ pc = "record" /\ closeRequested
    /\ pc' = "waitIdle"
    /\ UNCHANGED setupVars
    /\ UNCHANGED <<frame, closeRequested, shouldClose, imageIndex, commandBuffer,
                   exitCode, inFlightFence, imageAvailableSemaphore,
                   renderFinishedSemaphore, swapChainImages, graphicsQueueWork,
                   presentQueueWork, destroyed, lastSubmitted, fenceObserved,
                   driverFailure>>

MainLoopExit ==
    /\ pc = "loop"
    /\ shouldClose
    /\ pc' = "waitIdle"
    /\ UNCHANGED setupVars
    /\ UNCHANGED <<frame, closeRequested, shouldClose, imageIndex, commandBuffer,
                   exitCode, inFlightFence, imageAvailableSemaphore,
                   renderFinishedSemaphore, swapChainImages, graphicsQueueWork,
                   presentQueueWork, destroyed, lastSubmitted, fenceObserved,
                   driverFailure>>

\* Variant: mainLoop without the vkDeviceWaitIdle call.
DeviceWaitIdle_NoWait ==
    /\ pc = "waitIdle"
    /\ pc' = "cleanup"
    /\ UNCHANGED setupVars
    /\ UNCHANGED <<frame, closeRequested, shouldClose, imageIndex, commandBuffer,
                   exitCode, inFlightFence, imageAvailableSemaphore,
                   renderFinishedSemaphore, swapChainImages, graphicsQueueWork,
                   presentQueueWork, destroyed, lastSubmitted, fenceObserved,
                   driverFailure>>

DeviceWaitIdle ==
    /\ pc = "waitIdle"
    /\ graphicsQueueWork = <<>>
    /\ presentQueueWork = <<>>
    /\ pc' = "cleanup"
    /\ UNCHANGED setupVars
    /\ UNCHANGED <<frame, closeRequested, shouldClose, imageIndex, commandBuffer,
                   exitCode, inFlightFence, imageAvailableSemaphore,
                   renderFinishedSemaphore, swapChainImages, graphicsQueueWork,
                   presentQueueWork, destroyed, lastSubmitted, fenceObserved,
                   driverFailure>>

\* The objects initWindow and each stage of initVulkan leave behind for cleanup.
\* The shader modules are destroyed by createGraphicsPipeline itself, the chain's
\* images belong to the swap chain, the command buffer is freed with its pool,
\* and the physical device is not a created object.
CreatedObjects ==
    {"window", "instance", "surface", "device", "swapChain", "swapChainImageViews",
     "renderPass", "pipelineLayout", "graphicsPipeline", "swapChainFramebuffers",
     "commandPool", "imageAvailableSemaphore", "renderFinishedSemaphore",
     "inFlightFence"}

\* <<object, the object it was created from or refers to>>.
DependsOn ==
    {<<"instance", "window">>, <<"surface", "instance">>, <<"surface", "window">>,
     <<"device", "instance">>,
     <<"swapChain", "device">>, <<"swapChain", "surface">>,
     <<"swapChainImageViews", "device">>, <<"swapChainImageViews", "swapChain">>,
     <<"renderPass", "device">>, <<"pipelineLayout", "device">>,
     <<"graphicsPipeline", "device">>, <<"graphicsPipeline", "pipelineLayout">>,
     <<"graphicsPipeline", "renderPass">>,
     <<"swapChainFramebuffers", "device">>, <<"swapChainFramebuffers", "renderPass">>,
     <<"swapChainFramebuffers", "swapChainImageViews">>,
     <<"commandPool", "device">>, <<"imageAvailableSemaphore", "device">>,
     <<"renderFinishedSemaphore", "device">>, <<"inFlightFence", "device">>}

\* Variant: the device destroyed ahead of the objects created from it.
CleanupCalls_DeviceFirst ==
    <<"device",
      "imageAvailableSemaphore", "renderFinishedSemaphore", "inFlightFence",
      "commandPool", "swapChainFramebuffers", "graphicsPipeline", "pipelineLayout",
      "renderPass", "swapChainImageViews", "swapChain",
      "surface", "instance", "window">>

\* The destroy calls of cleanup, in the order it makes them (the framebuffers and
\* the image views are each destroyed in a loop over the whole vector).
CleanupCalls ==
    <<"imageAvailableSemaphore", "renderFinishedSemaphore", "inFlightFence",
      "commandPool", "swapChainFramebuffers", "graphicsPipeline", "pipelineLayout",
      "renderPass", "swapChainImageViews", "swapChain", "device",
      "surface", "instance", "window">>

(***************************************************************************)
(* cleanup: destroys the semaphores, the fence, the command pool, the      *)
(* framebuffers, the pipeline, the render pass, the views, the swap chain  *)
(* and the device; run() returns and main returns EXIT_SUCCESS.            *)
(***************************************************************************)
Cleanup ==
    /\ pc = "cleanup"
    /\ destroyed' = TRUE
    /\ destroyLog' = CleanupCalls
    /\ pc' = "exit"
    /\ exitCode' = EXIT_SUCCESS
    /\ UNCHANGED <<pickVars, chainVars, chooseVars, initVars>>
    /\ UNCHANGED <<frame, closeRequested, shouldClose, imageIndex, commandBuffer,
                   inFlightFence, imageAvailableSemaphore, renderFinishedSemaphore,
                   swapChainImages, graphicsQueueWork, presentQueueWork,
                   lastSubmitted, fenceObserved, driverFailure>>

(***************************************************************************)
(* drawFrame, statement by statement.                                      *)
(***************************************************************************)
\* Variant: drawFrame without the vkWaitForFences call.
WaitForFences_NoWait ==
    /\ pc = "waitFence"
    /\ fenceObserved' = IF inFlightFence = "signaled" THEN lastSubmitted ELSE fenceObserved
    /\ pc' = "resetFence"
    /\ UNCHANGED setupVars
    /\ UNCHANGED <<frame, closeRequested, shouldClose, imageIndex, commandBuffer,
                   exitCode, inFlightFence, imageAvailableSemaphore,
                   renderFinishedSemaphore, swapChainImages, graphicsQueueWork,
                   presentQueueWork, destroyed, lastSubmitted, driverFailure>>

\* vkWaitForFences(device, 1, &inFlightFence, VK_TRUE, UINT64_MAX)
WaitForFences ==
    /\ pc = "waitFence"
    /\ inFlightFence = "signaled"
    /\ fenceObserved' = lastSubmitted
    /\ pc' = "resetFence"
    /\ UNCHANGED setupVars
    /\ UNCHANGED <<frame, closeRequested, shouldClose, imageIndex, commandBuffer,
                   exitCode, inFlightFence, imageAvailableSemaphore,
                   renderFinishedSemaphore, swapChainImages, graphicsQueueWork,
                   presentQueueWork, destroyed, lastSubmitted, driverFailure>>

\* Variant: drawFrame going from the fence reset straight to the recording.
ResetFences_SkipAcquire ==
    /\ pc = "resetFence"
    /\ inFlightFence' = "unsignaled"
    /\ pc' = "record"
    /\ UNCHANGED setupVars
    /\ UNCHANGED <<frame, closeRequested, shouldClose, imageIndex, commandBuffer,
                   exitCode, imageAvailableSemaphore, renderFinishedSemaphore,
                   swapChainImages, graphicsQueueWork, presentQueueWork, destroyed,
                   lastSubmitted, fenceObserved, driverFailure>>

\* vkResetFences(device, 1, &inFlightFence)
ResetFences ==
    /\ pc = "resetFence"
    /\ inFlightFence' = "unsignaled"
    /\ pc' = "acquire"
    /\ UNCHANGED setupVars
    /\ UNCHANGED <<frame, closeRequested, shouldClose, imageIndex, commandBuffer,
                   exitCode, imageAvailableSemaphore, renderFinishedSemaphore,
                   swapChainImages, graphicsQueueWork, presentQueueWork, destroyed,
                   lastSubmitted, fenceObserved, driverFailure>>

\* vkAcquireNextImageKHR(device, swapChain, UINT64_MAX, imageAvailableSemaphore,
\* VK_NULL_HANDLE, &imageIndex) returns an image: it waits (the timeout is
\* unbounded) until the presentation engine has one to hand out, stores its index
\* and leaves the semaphore to be signaled when the image may be written.
AcquireNextImage ==
    /\ pc = "acquire"
    /\ \E i \in ImageSlots :
          /\ swapChainImages[i].owner = "free"
          /\ imageIndex' = i
          /\ swapChainImages' = [swapChainImages EXCEPT ![i] =
                                     [owner |-> "acquired", frame |-> frame]]
    /\ imageAvailableSemaphore' = Pending(frame)
    /\ pc' = "record"
    /\ UNCHANGED setupVars
    /\ UNCHANGED <<frame, closeRequested, shouldClose, commandBuffer, exitCode,
                   inFlightFence, renderFinishedSemaphore, graphicsQueueWork,
                   presentQueueWork, destroyed, lastSubmitted, fenceObserved,
                   driverFailure>>

\* vkAcquireNextImageKHR returns an error status: no image is acquired, the
\* semaphore is left alone and imageIndex is not written.  drawFrame does not look
\* at the status, so it goes on with the indeterminate local (any chain slot, or
\* NumImages for a value outside the chain).
AcquireNextImageFails ==
    /\ pc = "acquire"
    /\ \E garbage \in 0..NumImages : imageIndex' = garbage
    /\ NoteFailure("acquire")
    /\ pc' = "record"
    /\ UNCHANGED setupVars
    /\ UNCHANGED <<frame, closeRequested, shouldClose, commandBuffer, exitCode,
                   inFlightFence, imageAvailableSemaphore, renderFinishedSemaphore,
                   swapChainImages, graphicsQueueWork, presentQueueWork, destroyed,
                   lastSubmitted, fenceObserved>>

\* vkResetCommandBuffer(commandBuffer, 0); recordCommandBuffer(commandBuffer,
\* imageIndex): the render pass begins on swapChainFramebuffers[imageIndex].
\* vkBeginCommandBuffer / vkEndCommandBuffer failing makes recordCommandBuffer throw.
RecordCommandBuffer ==
    /\ pc = "record"
    /\ \E ok \in BOOLEAN :
          IF ok
          THEN /\ commandBuffer' = [state |-> "executable",
                                    framebuffer |-> imageIndex,
                                    frame |-> frame]
               /\ pc' = "submit"
               /\ UNCHANGED exitCode
          ELSE /\ commandBuffer' = [state |-> "invalid",
                                    framebuffer |-> imageIndex,
                                    frame |-> frame]
               /\ Throw
    /\ UNCHANGED setupVars
    /\ UNCHANGED <<frame, closeRequested, shouldClose, imageIndex, inFlightFence,
                   imageAvailableSemaphore, renderFinishedSemaphore, swapChainImages,
                   graphicsQueueWork, presentQueueWork, destroyed, lastSubmitted,
                   fenceObserved, driverFailure>>

\* Variant: a VkSubmitInfo with waitSemaphoreCount = 0.
SubmitInfo_NoWait ==
    [frame |-> commandBuffer.frame,
     framebuffer |-> commandBuffer.framebuffer,
     waitSemaphore |-> "none",
     waitDstStage |-> "COLOR_ATTACHMENT_OUTPUT",
     signalSemaphore |-> "renderFinishedSemaphore",
     fence |-> "inFlightFence",
     stage |-> "queued",
     imageAvailableFrom |-> 0]

\* The VkSubmitInfo drawFrame builds, with the fence handed to vkQueueSubmit.
SubmitInfo ==
    [frame |-> commandBuffer.frame,
     framebuffer |-> commandBuffer.framebuffer,
     waitSemaphore |-> "imageAvailableSemaphore",
     waitDstStage |-> "COLOR_ATTACHMENT_OUTPUT",
     signalSemaphore |-> "renderFinishedSemaphore",
     fence |-> "inFlightFence",
     stage |-> "queued",
     imageAvailableFrom |-> 0]

\* vkQueueSubmit(graphicsQueue, 1, &submitInfo, inFlightFence); a status other
\* than VK_SUCCESS throws.
QueueSubmit ==
    /\ pc = "submit"
    /\ \E res \in {"VK_SUCCESS", "VK_ERROR_DEVICE_LOST"} :
          IF res = "VK_SUCCESS"
          THEN /\ graphicsQueueWork' = Append(graphicsQueueWork, SubmitInfo)
               /\ commandBuffer' = [commandBuffer EXCEPT !.state = "pending"]
               /\ lastSubmitted' = frame
               /\ pc' = "present"
               /\ UNCHANGED <<exitCode, driverFailure>>
          ELSE /\ NoteFailure("submit")
               /\ Throw
               /\ UNCHANGED <<graphicsQueueWork, commandBuffer, lastSubmitted>>
    /\ UNCHANGED setupVars
    /\ UNCHANGED <<frame, closeRequested, shouldClose, imageIndex, inFlightFence,
                   imageAvailableSemaphore, renderFinishedSemaphore, swapChainImages,
                   presentQueueWork, destroyed, fenceObserved>>

\* The VkPresentInfoKHR drawFrame builds.
PresentInfo ==
    [frame |-> frame,
     image |-> imageIndex,
     waitSemaphore |-> "renderFinishedSemaphore"]

\* Variant: vkQueueWaitIdle(graphicsQueue) ahead of the present call.
QueuePresent_WaitsForGraphics ==
    /\ pc = "present"
    /\ graphicsQueueWork = <<>>
    /\ presentQueueWork' = Append(presentQueueWork, PresentInfo)
    /\ swapChainImages' =
          IF imageIndex \in ImageSlots
          THEN [swapChainImages EXCEPT ![imageIndex].owner = "queued"]
          ELSE swapChainImages
    /\ pc' = "loop"
    /\ UNCHANGED setupVars
    /\ UNCHANGED <<frame, closeRequested, shouldClose, imageIndex, commandBuffer,
                   exitCode, inFlightFence, imageAvailableSemaphore,
                   renderFinishedSemaphore, graphicsQueueWork, destroyed,
                   lastSubmitted, fenceObserved, driverFailure>>

\* vkQueuePresentKHR(presentQueue, &presentInfo); the status is not looked at.
\*   VK_SUCCESS: the request is queued behind its semaphore wait;
\*   VK_ERROR_OUT_OF_DATE_KHR: the presentation engine rejects the image, the
\*     semaphore wait is still queued;
\*   VK_ERROR_OUT_OF_HOST_MEMORY: the call has no effect.
QueuePresent ==
    /\ pc = "present"
    /\ \E res \in {"VK_SUCCESS", "VK_ERROR_OUT_OF_DATE_KHR", "VK_ERROR_OUT_OF_HOST_MEMORY"} :
          /\ presentQueueWork' =
                IF res = "VK_ERROR_OUT_OF_HOST_MEMORY"
                THEN presentQueueWork
                ELSE Append(presentQueueWork,
                            [PresentInfo EXCEPT !.image =
                                IF res = "VK_SUCCESS" THEN @ ELSE NumImages])
          /\ swapChainImages' =
                IF res = "VK_SUCCESS" /\ imageIndex \in ImageSlots
                THEN [swapChainImages EXCEPT ![imageIndex].owner = "queued"]
                ELSE swapChainImages
          /\ IF res = "VK_SUCCESS"
             THEN UNCHANGED driverFailure
             ELSE NoteFailure("present")
    /\ pc' = "loop"
    /\ UNCHANGED setupVars
    /\ UNCHANGED <<frame, closeRequested, shouldClose, imageIndex, commandBuffer,
                   exitCode, inFlightFence, imageAvailableSemaphore,
                   renderFinishedSemaphore, graphicsQueueWork, destroyed,
                   lastSubmitted, fenceObserved>>

(***************************************************************************)
(* The window system: the user asks to close the window.                   *)
(***************************************************************************)
RequestClose ==
    /\ ~closeRequested
    /\ pc # "exit"
    /\ closeRequested' = TRUE
    /\ UNCHANGED setupVars
    /\ UNCHANGED <<pc, frame, shouldClose, imageIndex, commandBuffer, exitCode,
                   inFlightFence, imageAvailableSemaphore, renderFinishedSemaphore,
                   swapChainImages, graphicsQueueWork, presentQueueWork, destroyed,
                   lastSubmitted, fenceObserved, driverFailure>>

(***************************************************************************)
(* The graphics queue.  A submission's semaphore wait holds back the       *)
(* stages named in waitDstStage and everything after them.                 *)
(***************************************************************************)
WaitsAt(s, stage) == s.waitSemaphore # "none" /\ s.waitDstStage = stage

\* The stages before colour-attachment output start.
GpuStart(k) ==
    /\ k \in DOMAIN graphicsQueueWork
    /\ graphicsQueueWork[k].stage = "queued"
    /\ IF WaitsAt(graphicsQueueWork[k], "TOP_OF_PIPE")
       THEN /\ imageAvailableSemaphore.state = "signaled"
            /\ imageAvailableSemaphore' = Unsignaled
            /\ graphicsQueueWork' =
                  [graphicsQueueWork EXCEPT ![k].stage = "early",
                       ![k].imageAvailableFrom = imageAvailableSemaphore.by]
       ELSE /\ UNCHANGED imageAvailableSemaphore
            /\ graphicsQueueWork' = [graphicsQueueWork EXCEPT ![k].stage = "early"]
    /\ UNCHANGED setupVars
    /\ UNCHANGED <<pc, frame, closeRequested, shouldClose, imageIndex, commandBuffer,
                   exitCode, inFlightFence, renderFinishedSemaphore, swapChainImages,
                   presentQueueWork, destroyed, lastSubmitted, fenceObserved,
                   driverFailure>>

\* The colour-attachment-output stage starts: the image is cleared and written.
GpuColorOutput(k) ==
    /\ k \in DOMAIN graphicsQueueWork
    /\ graphicsQueueWork[k].stage = "early"
    /\ IF WaitsAt(graphicsQueueWork[k], "COLOR_ATTACHMENT_OUTPUT")
       THEN /\ imageAvailableSemaphore.state = "signaled"
            /\ imageAvailableSemaphore' = Unsignaled
            /\ graphicsQueueWork' =
                  [graphicsQueueWork EXCEPT ![k].stage = "color",
                       ![k].imageAvailableFrom = imageAvailableSemaphore.by]
       ELSE /\ UNCHANGED imageAvailableSemaphore
            /\ graphicsQueueWork' = [graphicsQueueWork EXCEPT ![k].stage = "color"]
    /\ UNCHANGED setupVars
    /\ UNCHANGED <<pc, frame, closeRequested, shouldClose, imageIndex, commandBuffer,
                   exitCode, inFlightFence, renderFinishedSemaphore, swapChainImages,
                   presentQueueWork, destroyed, lastSubmitted, fenceObserved,
                   driverFailure>>

\* The submission completes: its semaphore and its fence are signaled.
GpuFinish(k) ==
    /\ k \in DOMAIN graphicsQueueWork
    /\ graphicsQueueWork[k].stage = "color"
    /\ graphicsQueueWork' = RemoveAt(graphicsQueueWork, k)
    /\ renderFinishedSemaphore' =
          IF graphicsQueueWork[k].signalSemaphore = "renderFinishedSemaphore"
          THEN Signaled(graphicsQueueWork[k].frame)
          ELSE renderFinishedSemaphore
    /\ inFlightFence' =
          IF graphicsQueueWork[k].fence = "inFlightFence"
          THEN "signaled"
          ELSE inFlightFence
    /\ commandBuffer' =
          IF commandBuffer.state = "pending" /\ Len(graphicsQueueWork) = 1
          THEN [commandBuffer EXCEPT !.state = "executable"]
          ELSE commandBuffer
    /\ UNCHANGED setupVars
    /\ UNCHANGED <<pc, frame, closeRequested, shouldClose, imageIndex, exitCode,
                   imageAvailableSemaphore, swapChainImages, presentQueueWork,
                   destroyed, lastSubmitted, fenceObserved, driverFailure>>

(***************************************************************************)
(* The presentation engine.                                                *)
(***************************************************************************)
\* The acquired image may now be written: the acquire's semaphore is signaled.
PeImageAvailable ==
    /\ imageAvailableSemaphore.state = "pending"
    /\ imageAvailableSemaphore' = Signaled(imageAvailableSemaphore.by)
    /\ UNCHANGED setupVars
    /\ UNCHANGED <<pc, frame, closeRequested, shouldClose, imageIndex, commandBuffer,
                   exitCode, inFlightFence, renderFinishedSemaphore, swapChainImages,
                   graphicsQueueWork, presentQueueWork, destroyed, lastSubmitted,
                   fenceObserved, driverFailure>>

\* The oldest present request's semaphore wait is satisfied: the engine starts
\* reading the image it names.
PeBeginPresent ==
    /\ presentQueueWork # <<>>
    /\ renderFinishedSemaphore.state = "signaled"
    /\ renderFinishedSemaphore' = Unsignaled
    /\ presentQueueWork' = Tail(presentQueueWork)
    /\ LET req == Head(presentQueueWork) IN
       swapChainImages' =
          IF req.image \in ImageSlots
          THEN [swapChainImages EXCEPT ![req.image] =
                   [owner |-> "presenting", frame |-> req.frame]]
          ELSE swapChainImages
    /\ UNCHANGED setupVars
    /\ UNCHANGED <<pc, frame, closeRequested, shouldClose, imageIndex, commandBuffer,
                   exitCode, inFlightFence, imageAvailableSemaphore,
                   graphicsQueueWork, destroyed, lastSubmitted, fenceObserved,
                   driverFailure>>

\* The engine is done with an image it was showing.
PeRelease(i) ==
    /\ i \in ImageSlots
    /\ swapChainImages[i].owner = "presenting"
    /\ swapChainImages' = [swapChainImages EXCEPT ![i] = FreeImage]
    /\ UNCHANGED setupVars
    /\ UNCHANGED <<pc, frame, closeRequested, shouldClose, imageIndex, commandBuffer,
                   exitCode, inFlightFence, imageAvailableSemaphore,
                   renderFinishedSemaphore, graphicsQueueWork, presentQueueWork,
                   destroyed, lastSubmitted, fenceObserved, driverFailure>>

(***************************************************************************)
(* The frame loop.                                                         *)
(***************************************************************************)
HostReturns ==
    \/ WaitForFences
    \/ ResetFences
    \/ AcquireNextImage
    \/ RecordCommandBuffer
    \/ QueueSubmit
    \/ QueuePresent

Next ==
    \/ MainLoopIterate
    \/ MainLoopExit
    \/ DeviceWaitIdle
    \/ Cleanup
    \/ WaitForFences
    \/ ResetFences
    \/ AcquireNextImage
    \/ AcquireNextImageFails
    \/ RecordCommandBuffer
    \/ QueueSubmit
    \/ QueuePresent
    \/ RequestClose
    \/ \E k \in 1..MaxFrames : GpuStart(k)
    \/ \E k \in 1..MaxFrames : GpuColorOutput(k)
    \/ \E k \in 1..MaxFrames : GpuFinish(k)
    \/ PeImageAvailable
    \/ PeBeginPresent
    \/ \E i \in 0..(MaxImages - 1) : PeRelease(i)

(***************************************************************************)
(* Physical devices as the driver describes them.                          *)
(***************************************************************************)
MaxDevices == 2
MaxFamilies == 2
MaxFormats == 2
MaxModes == 2
MaxImageCount == 3

\* std::numeric_limits<uint32_t>::max().  The model's unsigned words are 16 bits
\* wide (TLC's integers are 32-bit signed); every count and extent used
\* here fits, and the arithmetic wraps at the word size as uint32_t does.
UintMax == 65535
NoValue == -1            \* an empty std::optional<uint32_t>

SeqsUpTo(S, n) == UNION {[1..m -> S] : m \in 0..n}
Repeat(x, n) == [j \in 1..n |-> x]
ToUint32(x) == x % (UintMax + 1)

\* A queue family: queueFlags & VK_QUEUE_GRAPHICS_BIT, and what
\* vkGetPhysicalDeviceSurfaceSupportKHR reports for it.
QueueFamilyKinds == [graphics : BOOLEAN, present : BOOLEAN]

ExtensionNames == {"VK_KHR_swapchain", "VK_KHR_maintenance1"}
deviceExtensions == {"VK_KHR_swapchain"}

BGRA_SRGB == [format |-> "VK_FORMAT_B8G8R8A8_SRGB",
              colorSpace |-> "VK_COLORSPACE_SRGB_NONLINEAR_KHR"]

NullDevice == [queueFamilies |-> <<>>, extensions |-> {},
               formats |-> <<>>, presentModes |-> <<>>]

\* The devices pickPhysicalDevice may meet: any queue-family list, any extension
\* set, 0..MaxFormats surface formats and 0..MaxModes present modes.
PickDevices ==
    [queueFamilies : SeqsUpTo(QueueFamilyKinds, MaxFamilies),
     extensions : SUBSET ExtensionNames,
     formats : {Repeat(BGRA_SRGB, n) : n \in 0..MaxFormats},
     presentModes : {Repeat("VK_PRESENT_MODE_FIFO_KHR", n) : n \in 0..MaxModes}]

(***************************************************************************)
(* QueueFamilyIndices and findQueueFamilies.                               *)
(***************************************************************************)
isComplete(indices) ==
    indices.graphicsFamily # NoValue /\ indices.presentFamily # NoValue

RECURSIVE FindQueueFamiliesFrom(_, _, _)
FindQueueFamiliesFrom(queueFamilies, i, indices) ==
    IF i >= Len(queueFamilies) \/ isComplete(indices)
    THEN indices
    ELSE LET queueFamily == queueFamilies[i + 1] IN
         FindQueueFamiliesFrom(queueFamilies, i + 1,
            [graphicsFamily |-> IF queueFamily.graphics THEN i
                                ELSE indices.graphicsFamily,
             presentFamily |-> IF queueFamily.present THEN i
                               ELSE indices.presentFamily])

findQueueFamilies(physDevice) ==
    FindQueueFamiliesFrom(physDevice.queueFamilies, 0,
                          [graphicsFamily |-> NoValue, presentFamily |-> NoValue])

checkPhysDeviceExtensionSupport(physDevice) ==
    \A deviceExtension \in deviceExtensions :
        \E supportedExtension \in physDevice.extensions :
            supportedExtension = deviceExtension

(***************************************************************************)
(* querySwapChainSupport.  The second vkGetPhysicalDeviceSurfacePresentModesKHR *)
(* call is handed &formatCount: it fills at most formatCount entries of the  *)
(* vector resized to presentModeCount; the others keep the value the resize  *)
(* gave them, 0, which is VK_PRESENT_MODE_IMMEDIATE_KHR.                   *)
(***************************************************************************)
querySwapChainSupport(physDevice, caps) ==
    [capabilities |-> caps,
     formats |-> physDevice.formats,
     presentModes |->
        [j \in 1..Len(physDevice.presentModes) |->
            IF j <= Len(physDevice.formats)
            THEN physDevice.presentModes[j]
            ELSE "VK_PRESENT_MODE_IMMEDIATE_KHR"]]

\* Variant: the present modes not looked at.
isAdequate_FormatsOnly(details) == details.formats # <<>>

isAdequate(details) == details.formats # <<>> /\ details.presentModes # <<>>

\* Variant: the extension check left out.
isPhysDeviceSuitable_NoExtensionCheck(physDevice, caps) ==
    /\ isComplete(findQueueFamilies(physDevice))
    /\ isAdequate(querySwapChainSupport(physDevice, caps))

isPhysDeviceSuitable(physDevice, caps) ==
    /\ isComplete(findQueueFamilies(physDevice))
    /\ checkPhysDeviceExtensionSupport(physDevice)
    /\ isAdequate(querySwapChainSupport(physDevice, caps))

(***************************************************************************)
(* What the specification asks of a device, stated on the driver's data.   *)
(***************************************************************************)
Qualifies(d) ==
    /\ \E j \in DOMAIN d.queueFamilies : d.queueFamilies[j].graphics
    /\ \E j \in DOMAIN d.queueFamilies : d.queueFamilies[j].present
    /\ deviceExtensions \subseteq d.extensions
    /\ Len(d.formats) > 0
    /\ Len(d.presentModes) > 0

(***************************************************************************)
(* Surface capabilities and the window.                                    *)
(***************************************************************************)
UndefinedExtent == [width |-> UintMax, height |-> UintMax]

CapabilitySets ==
    [minImageCount : 1..MaxImageCount,
     maxImageCount : 0..MaxImageCount,
     currentExtent : {UndefinedExtent, [width |-> 800, height |-> 600]},
     minImageExtent : {[width |-> 1, height |-> 1]},
     maxImageExtent : {[width |-> 1024, height |-> 1024]}]

FramebufferSizes ==
    {[width |-> 1920, height |-> 1080], [width |-> 800, height |-> 600],
     [width |-> 0, height |-> 0]}

NoCapabilities ==
    [minImageCount |-> 0, maxImageCount |-> 0, currentExtent |-> UndefinedExtent,
     minImageExtent |-> UndefinedExtent, maxImageExtent |-> UndefinedExtent]

NoCreateInfo ==
    [minImageCount |-> 0,
     imageFormat |-> "VK_FORMAT_UNDEFINED",
     imageColorSpace |-> "VK_COLORSPACE_SRGB_NONLINEAR_KHR",
     imageExtent |-> [width |-> 0, height |-> 0],
     presentMode |-> "VK_PRESENT_MODE_IMMEDIATE_KHR",
     imageSharingMode |-> "VK_SHARING_MODE_EXCLUSIVE",
     queueFamilyIndexCount |-> 0,
     pQueueFamilyIndices |-> <<>>]

(***************************************************************************)
(* pickPhysicalDevice.                                                     *)
(***************************************************************************)
\* Variant: the device count not tested before the scan.
EnumeratePhysicalDevices_NoCheck ==
    /\ pickPc = "enumerate"
    /\ \E n \in 0..MaxDevices :
          /\ deviceCount' = n
          /\ pickPc' = "scan"
          /\ devIdx' = 1
          /\ UNCHANGED pickError
    /\ UNCHANGED <<physicalDevice, qualifiedLog>>
    /\ UNCHANGED <<frameVars, chainVars, chooseVars, initVars, cleanupVars>>

\* vkEnumeratePhysicalDevices; no device at all throws.
EnumeratePhysicalDevices ==
    /\ pickPc = "enumerate"
    /\ \E n \in 0..MaxDevices :
          /\ deviceCount' = n
          /\ IF n = 0
             THEN /\ pickError' = "failed to find GPUs with Vulkan support"
                  /\ pickPc' = "thrown"
                  /\ UNCHANGED devIdx
             ELSE /\ pickPc' = "scan"
                  /\ devIdx' = 1
                  /\ UNCHANGED pickError
    /\ UNCHANGED <<physicalDevice, qualifiedLog>>
    /\ UNCHANGED <<frameVars, chainVars, chooseVars, initVars, cleanupVars>>

\* One turn of "for (const auto& physDev : physDevs)": the driver describes the
\* device when isPhysDeviceSuitable queries it.
ExamineDevice ==
    /\ pickPc = "scan"
    /\ devIdx <= deviceCount
    /\ \E physDev \in PickDevices :
          /\ qualifiedLog' = Append(qualifiedLog, Qualifies(physDev))
          /\ IF isPhysDeviceSuitable(physDev, capabilities)
             THEN /\ physicalDevice' = physDev
                  /\ resolvedIndices' = findQueueFamilies(physDev)
                  /\ pickPc' = "selected"
                  /\ UNCHANGED devIdx
             ELSE /\ devIdx' = devIdx + 1
                  /\ UNCHANGED <<physicalDevice, pickPc, resolvedIndices>>
    /\ UNCHANGED <<deviceCount, pickError>>
    /\ UNCHANGED <<initPc, instanceEnv, instanceCreateInfo, queueCreateInfos,
                   graphicsQueue, presentQueue, commandPool, assertFailed>>
    /\ UNCHANGED <<frameVars, chainVars, chooseVars, cleanupVars>>

\* The loop ran off the end of physDevs.
NoSuitableDevice ==
    /\ pickPc = "scan"
    /\ devIdx > deviceCount
    /\ pickError' = "Failed to find a suitable GPU"
    /\ pickPc' = "thrown"
    /\ UNCHANGED <<deviceCount, devIdx, physicalDevice, qualifiedLog>>
    /\ UNCHANGED <<frameVars, chainVars, chooseVars, initVars, cleanupVars>>

(***************************************************************************)
(* createSwapChain and its choosers.                                       *)
(***************************************************************************)
IsPreferredFormat(surfaceFormat) ==
    /\ surfaceFormat.format = "VK_FORMAT_B8G8R8A8_SRGB"
    /\ surfaceFormat.colorSpace = "VK_COLORSPACE_SRGB_NONLINEAR_KHR"

\* Variant: the first entry whatever the list holds.
chooseSwapSurfaceFormat_FirstEntry(surfaceFormats) == surfaceFormats[1]

chooseSwapSurfaceFormat(surfaceFormats) ==
    IF \E j \in DOMAIN surfaceFormats : IsPreferredFormat(surfaceFormats[j])
    THEN surfaceFormats[CHOOSE j \in DOMAIN surfaceFormats :
                           /\ IsPreferredFormat(surfaceFormats[j])
                           /\ \A h \in 1..(j - 1) : ~IsPreferredFormat(surfaceFormats[h])]
    ELSE surfaceFormats[1]

\* Variant: only the first entry of the list looked at.
chooseSwapPresentMode_FirstOnly(presentModes) ==
    IF presentModes[1] = "VK_PRESENT_MODE_MAILBOX_KHR"
    THEN "VK_PRESENT_MODE_MAILBOX_KHR"
    ELSE "VK_PRESENT_MODE_FIFO_KHR"

chooseSwapPresentMode(presentModes) ==
    IF \E j \in DOMAIN presentModes : presentModes[j] = "VK_PRESENT_MODE_MAILBOX_KHR"
    THEN "VK_PRESENT_MODE_MAILBOX_KHR"
    ELSE "VK_PRESENT_MODE_FIFO_KHR"

clamp(v, lo, hi) == IF v < lo THEN lo ELSE IF hi < v THEN hi ELSE v

\* Variant: the framebuffer size taken as it is.
chooseSwapExtent_NoClamp(caps, fbSize) ==
    IF caps.currentExtent.width # UintMax
    THEN caps.currentExtent
    ELSE [width |-> ToUint32(fbSize.width), height |-> ToUint32(fbSize.height)]

\* The window's framebuffer size is what glfwGetFramebufferSize stores, cast to
\* uint32_t.
chooseSwapExtent(caps, fbSize) ==
    IF caps.currentExtent.width # UintMax
    THEN caps.currentExtent
    ELSE [width |-> clamp(ToUint32(fbSize.width),
                          caps.minImageExtent.width, caps.maxImageExtent.width),
          height |-> clamp(ToUint32(fbSize.height),
                           caps.minImageExtent.height, caps.maxImageExtent.height)]

\* Variant: the clamp to maxImageCount left out.
ChooseImageCount_NoClamp(caps) == ToUint32(caps.minImageCount + 1)

\* Variant: the extra image over the driver's minimum left out.
ChooseImageCount_NoExtra(caps) ==
    LET minImageCount == caps.minImageCount IN
    IF caps.maxImageCount # 0
    THEN IF caps.maxImageCount < minImageCount THEN caps.maxImageCount ELSE minImageCount
    ELSE minImageCount

\* uint32_t minImageCount = capabilities.minImageCount + 1;
\* if (capabilities.maxImageCount) minImageCount = std::min(minImageCount, maxImageCount);
ChooseImageCount(caps) ==
    LET minImageCount == ToUint32(caps.minImageCount + 1) IN
    IF caps.maxImageCount # 0
    THEN IF caps.maxImageCount < minImageCount THEN caps.maxImageCount ELSE minImageCount
    ELSE minImageCount

\* Variant: the graphics index compared with itself.
ChooseSharing_SelfCompare(indices) ==
    IF indices.graphicsFamily # indices.graphicsFamily
    THEN [imageSharingMode |-> "VK_SHARING_MODE_CONCURRENT",
          pQueueFamilyIndices |-> <<indices.graphicsFamily, indices.presentFamily>>,
          queueFamilyIndexCount |-> 2]
    ELSE [imageSharingMode |-> "VK_SHARING_MODE_EXCLUSIVE",
          pQueueFamilyIndices |-> <<>>,
          queueFamilyIndexCount |-> 0]

\* The sharing mode and the family-index list, from the resolved indices.
ChooseSharing(indices) ==
    IF indices.graphicsFamily # indices.presentFamily
    THEN [imageSharingMode |-> "VK_SHARING_MODE_CONCURRENT",
          pQueueFamilyIndices |-> <<indices.graphicsFamily, indices.presentFamily>>,
          queueFamilyIndexCount |-> 2]
    ELSE [imageSharingMode |-> "VK_SHARING_MODE_EXCLUSIVE",
          pQueueFamilyIndices |-> <<>>,
          queueFamilyIndexCount |-> 0]

SwapChainCreateInfo(physDevice, caps, fbSize) ==
    LET swapChainSupports == querySwapChainSupport(physDevice, caps)
        surfaceFormat == chooseSwapSurfaceFormat(swapChainSupports.formats)
        sharing == ChooseSharing(findQueueFamilies(physDevice))
    IN  [minImageCount |-> ChooseImageCount(swapChainSupports.capabilities),
         imageFormat |-> surfaceFormat.format,
         imageColorSpace |-> surfaceFormat.colorSpace,
         imageExtent |-> chooseSwapExtent(swapChainSupports.capabilities, fbSize),
         presentMode |-> chooseSwapPresentMode(swapChainSupports.presentModes),
         imageSharingMode |-> sharing.imageSharingMode,
         queueFamilyIndexCount |-> sharing.queueFamilyIndexCount,
         pQueueFamilyIndices |-> sharing.pQueueFamilyIndices]

\* createSwapChain: the choosers assert that the list they are given is not
\* empty; vkCreateSwapchainKHR failing throws; otherwise the driver makes at
\* least the requested number of images and vkGetSwapchainImagesKHR reports how
\* many.
CreateSwapChain ==
    /\ chainPc = "createSwapChain"
    /\ LET swapChainSupports == querySwapChainSupport(physicalDevice, capabilities) IN
       IF swapChainSupports.formats = <<>>
       THEN /\ assertFailed' = "Number of available surface formats is 0"
            /\ chainPc' = "aborted"
            /\ UNCHANGED <<swapChainCreateInfo, chainImageCount>>
       ELSE IF swapChainSupports.presentModes = <<>>
       THEN /\ assertFailed' = "Number of available presentation modes is 0"
            /\ chainPc' = "aborted"
            /\ UNCHANGED <<swapChainCreateInfo, chainImageCount>>
       ELSE /\ swapChainCreateInfo' =
                  SwapChainCreateInfo(physicalDevice, capabilities, framebufferSize)
            /\ \E res \in {"VK_SUCCESS", "VK_ERROR_INITIALIZATION_FAILED"} :
                  IF res = "VK_SUCCESS"
                  THEN /\ chainPc' = "created"
                       /\ \E extra \in 0..1 :
                             chainImageCount' = swapChainCreateInfo'.minImageCount + extra
                  ELSE /\ chainPc' = "thrown"
                       /\ UNCHANGED chainImageCount
            /\ UNCHANGED assertFailed
    /\ UNCHANGED <<capabilities, framebufferSize>>
    /\ UNCHANGED <<initPc, instanceEnv, instanceCreateInfo, resolvedIndices,
                   queueCreateInfos, graphicsQueue, presentQueue, commandPool>>
    /\ UNCHANGED <<frameVars, pickVars, chooseVars, cleanupVars>>

(***************************************************************************)
(* Initial states and specifications.                                      *)
(***************************************************************************)
FrameIdle ==
    /\ pc = "initVulkan"
    /\ frame = 0
    /\ closeRequested = FALSE
    /\ shouldClose = FALSE
    /\ imageIndex = Uninitialized
    /\ commandBuffer = [state |-> "initial", framebuffer |-> Uninitialized, frame |-> 0]
    /\ exitCode = -1
    /\ inFlightFence = "unsignaled"
    /\ imageAvailableSemaphore = Unsignaled
    /\ renderFinishedSemaphore = Unsignaled
    /\ swapChainImages = <<>>
    /\ graphicsQueueWork = <<>>
    /\ presentQueueWork = <<>>
    /\ destroyed = FALSE
    /\ lastSubmitted = 0
    /\ fenceObserved = 0
    /\ driverFailure = "none"

PickIdle ==
    /\ pickPc = "done"
    /\ deviceCount = 0
    /\ devIdx = 0
    /\ physicalDevice = NullDevice
    /\ pickError = "none"
    /\ qualifiedLog = <<>>

ChainIdle ==
    /\ chainPc = "done"
    /\ capabilities = NoCapabilities
    /\ framebufferSize = [width |-> 0, height |-> 0]
    /\ swapChainCreateInfo = NoCreateInfo
    /\ chainImageCount = 0

NoIndices == [graphicsFamily |-> NoValue, presentFamily |-> NoValue]
NoQueue == [family |-> NoValue, index |-> NoValue]
NoInstanceEnv ==
    [required |-> {}, supported |-> {}, enableValidationLayers |-> FALSE,
     availableLayers |-> {}]
NoInstanceCreateInfo ==
    [attempted |-> FALSE, enabledExtensions |-> {}, enabledLayers |-> {}]

InitVulkanIdle ==
    /\ initPc = "idle"
    /\ instanceEnv = NoInstanceEnv
    /\ instanceCreateInfo = NoInstanceCreateInfo
    /\ resolvedIndices = NoIndices
    /\ queueCreateInfos = <<>>
    /\ graphicsQueue = NoQueue
    /\ presentQueue = NoQueue
    /\ commandPool = [queueFamilyIndex |-> NoValue]
    /\ assertFailed = "none"

CleanupIdle == destroyLog = <<>>

NoCall == [fn |-> "none", arg |-> <<>>, result |-> <<>>, again |-> <<>>]

ChooseIdle == chooserCall = NoCall

\* pickPhysicalDevice is entered with physicalDevice = VK_NULL_HANDLE.
InitPick ==
    /\ FrameIdle
    /\ ChainIdle
    /\ ChooseIdle
    /\ InitVulkanIdle
    /\ CleanupIdle
    /\ pickPc = "enumerate"
    /\ deviceCount = 0
    /\ devIdx = 0
    /\ physicalDevice = NullDevice
    /\ pickError = "none"
    /\ qualifiedLog = <<>>

NextPick ==
    \/ EnumeratePhysicalDevices
    \/ ExamineDevice
    \/ NoSuitableDevice

SpecPick == InitPick /\ [][NextPick]_vars

\* The devices createSwapChain may be entered with: the ones pickPhysicalDevice
\* selects.
ChainDevices ==
    {d \in [queueFamilies : SeqsUpTo(QueueFamilyKinds, MaxFamilies),
            extensions : {deviceExtensions},
            formats : {Repeat(BGRA_SRGB, n) : n \in 1..MaxFormats},
            presentModes : {Repeat("VK_PRESENT_MODE_FIFO_KHR", n) : n \in 1..MaxModes}] :
        isPhysDeviceSuitable(d, NoCapabilities)}

InitChain ==
    /\ FrameIdle
    /\ ChooseIdle
    /\ CleanupIdle
    /\ initPc = "idle"
    /\ instanceEnv = NoInstanceEnv
    /\ instanceCreateInfo = NoInstanceCreateInfo
    /\ queueCreateInfos = <<>>
    /\ graphicsQueue = NoQueue
    /\ presentQueue = NoQueue
    /\ commandPool = [queueFamilyIndex |-> NoValue]
    /\ assertFailed = "none"
    /\ pickPc = "selected"
    /\ deviceCount = 1
    /\ devIdx = 1
    /\ physicalDevice \in ChainDevices
    /\ resolvedIndices = findQueueFamilies(physicalDevice)
    /\ pickError = "none"
    /\ qualifiedLog = <<TRUE>>
    /\ chainPc = "createSwapChain"
    /\ capabilities \in CapabilitySets
    /\ framebufferSize \in FramebufferSizes
    /\ swapChainCreateInfo = NoCreateInfo
    /\ chainImageCount = 0

NextChain == CreateSwapChain

SpecChain == InitChain /\ [][NextChain]_vars

\* What the driver may list for a surface.
SurfaceFormatKinds ==
    {BGRA_SRGB,
     [format |-> "VK_FORMAT_B8G8R8A8_SRGB",
      colorSpace |-> "VK_COLOR_SPACE_DISPLAY_P3_NONLINEAR_EXT"],
     [format |-> "VK_FORMAT_B8G8R8A8_UNORM",
      colorSpace |-> "VK_COLORSPACE_SRGB_NONLINEAR_KHR"],
     [format |-> "VK_FORMAT_R8G8B8A8_SRGB",
      colorSpace |-> "VK_COLORSPACE_SRGB_NONLINEAR_KHR"]}

PresentModeKinds ==
    {"VK_PRESENT_MODE_IMMEDIATE_KHR", "VK_PRESENT_MODE_MAILBOX_KHR",
     "VK_PRESENT_MODE_FIFO_KHR", "VK_PRESENT_MODE_FIFO_RELAXED_KHR"}

\* The non-empty lists the choosers are called with (isAdequate was checked).
FormatLists == SeqsUpTo(SurfaceFormatKinds, MaxFormats) \ {<<>>}
ModeLists == SeqsUpTo(PresentModeKinds, MaxModes) \ {<<>>}

\* chooseSwapSurfaceFormat(swapChainSupports.formats), called twice on one list.
CallChooseSwapSurfaceFormat ==
    /\ \E surfaceFormats \in FormatLists :
          chooserCall' = [fn |-> "chooseSwapSurfaceFormat",
                          arg |-> surfaceFormats,
                          result |-> chooseSwapSurfaceFormat(surfaceFormats),
                          again |-> chooseSwapSurfaceFormat(surfaceFormats)]
    /\ UNCHANGED <<frameVars, pickVars, chainVars, initVars, cleanupVars>>

\* chooseSwapPresentMode(swapChainSupports.presentModes), called twice on one list.
CallChooseSwapPresentMode ==
    /\ \E presentModes \in ModeLists :
          chooserCall' = [fn |-> "chooseSwapPresentMode",
                          arg |-> presentModes,
                          result |-> chooseSwapPresentMode(presentModes),
                          again |-> chooseSwapPresentMode(presentModes)]
    /\ UNCHANGED <<frameVars, pickVars, chainVars, initVars, cleanupVars>>

\* chooseSwapExtent(swapChainSupports.capabilities), called twice on one surface
\* and window.
CallChooseSwapExtent ==
    /\ \E caps \in CapabilitySets, fbSize \in FramebufferSizes :
          chooserCall' = [fn |-> "chooseSwapExtent",
                          arg |-> <<caps, fbSize>>,
                          result |-> chooseSwapExtent(caps, fbSize),
                          again |-> chooseSwapExtent(caps, fbSize)]
    /\ UNCHANGED <<frameVars, pickVars, chainVars, initVars, cleanupVars>>

\* findQueueFamilies(physDevice), called twice on one device; the device lists up
\* to MaxQueueFamilies queue families.
MaxQueueFamilies == 3

CallFindQueueFamilies ==
    /\ \E queueFamilies \in SeqsUpTo(QueueFamilyKinds, MaxQueueFamilies) :
          LET physDevice == [NullDevice EXCEPT !.queueFamilies = queueFamilies] IN
          chooserCall' = [fn |-> "findQueueFamilies",
                          arg |-> queueFamilies,
                          result |-> findQueueFamilies(physDevice),
                          again |-> findQueueFamilies(physDevice)]
    /\ UNCHANGED <<frameVars, pickVars, chainVars, initVars, cleanupVars>>

\* querySwapChainSupport(physDevice), on a device advertising the given formats
\* and present modes for the surface.
CallQuerySwapChainSupport ==
    /\ \E surfaceFormats \in SeqsUpTo(SurfaceFormatKinds, MaxFormats),
          presentModes \in SeqsUpTo(PresentModeKinds, MaxModes) :
          LET physDevice == [NullDevice EXCEPT !.formats = surfaceFormats,
                                               !.presentModes = presentModes]
              details == querySwapChainSupport(physDevice, NoCapabilities)
          IN chooserCall' = [fn |-> "querySwapChainSupport",
                             arg |-> [formats |-> surfaceFormats,
                                      presentModes |-> presentModes],
                             result |-> [formats |-> details.formats,
                                         presentModes |-> details.presentModes],
                             again |-> [formats |-> details.formats,
                                        presentModes |-> details.presentModes]]
    /\ UNCHANGED <<frameVars, pickVars, chainVars, initVars, cleanupVars>>

InitChoose ==
    /\ FrameIdle
    /\ PickIdle
    /\ ChainIdle
    /\ ChooseIdle
    /\ InitVulkanIdle
    /\ CleanupIdle

NextChoose ==
    \/ CallChooseSwapSurfaceFormat
    \/ CallChooseSwapPresentMode
    \/ CallChooseSwapExtent
    \/ CallFindQueueFamilies
    \/ CallQuerySwapChainSupport

SpecChoose == InitChoose /\ [][NextChoose]_vars

(***************************************************************************)
(* The frame loop with progress.  The host thread runs: a call that can     *)
(* return does return (vkWaitForFences, vkAcquireNextImageKHR and          *)
(* vkDeviceWaitIdle block, with no timeout, until they can).  The GPU      *)
(* executes every stage of a submission that is free to start, and the     *)
(* presentation engine signals acquired images, takes every present        *)
(* request whose semaphore wait is satisfied and releases every image it   *)
(* shows.  Nothing makes the user close the window or a driver call fail.  *)
(***************************************************************************)
HostProgress ==
    /\ WF_vars(MainLoopIterate)
    /\ WF_vars(MainLoopExit)
    /\ WF_vars(DeviceWaitIdle)
    /\ WF_vars(Cleanup)
    /\ WF_vars(WaitForFences)
    /\ WF_vars(ResetFences)
    /\ WF_vars(AcquireNextImage)
    /\ WF_vars(RecordCommandBuffer)
    /\ WF_vars(QueueSubmit)
    /\ WF_vars(QueuePresent)

GpuProgress ==
    \A k \in 1..MaxFrames :
        /\ WF_vars(GpuStart(k))
        /\ WF_vars(GpuColorOutput(k))
        /\ WF_vars(GpuFinish(k))

PeProgress ==
    /\ WF_vars(PeImageAvailable)
    /\ WF_vars(PeBeginPresent)
    /\ \A i \in 0..(MaxImages - 1) : WF_vars(PeRelease(i))

(***************************************************************************)
(* initVulkan, stage by stage.                                             *)
(***************************************************************************)
Stages ==
    <<"createInstance", "createSurface", "pickPhysicalDevice", "createLogicalDevice",
      "createSwapChain", "createImageViews", "createRenderPass",
      "createGraphicsPipeline", "createFramebuffers", "createCommandPool",
      "createCommandBuffer", "createSyncPrimitives">>

StageIndex(stage) == CHOOSE j \in DOMAIN Stages : Stages[j] = stage

StageAfter(stage) ==
    IF StageIndex(stage) = Len(Stages) THEN "done" ELSE Stages[StageIndex(stage) + 1]

\* The frame-loop state no stage but the last touches.
loopVars == <<frame, closeRequested, shouldClose, imageIndex, commandBuffer,
              inFlightFence, imageAvailableSemaphore, renderFinishedSemaphore,
              swapChainImages, graphicsQueueWork, presentQueueWork, destroyed,
              lastSubmitted, fenceObserved>>

\* Variant: a failed stage is noted and initVulkan goes on to the next stage.
StageEnds_IgnoresFailure(stage, ok) ==
    /\ initPc' = StageAfter(stage)
    /\ driverFailure' = IF ok THEN driverFailure ELSE stage
    /\ UNCHANGED <<pc, exitCode>>

\* A stage returns to initVulkan, which calls the next one, or throws out of
\* initVulkan and run().
StageEnds(stage, ok) ==
    IF ok
    THEN /\ initPc' = StageAfter(stage)
         /\ UNCHANGED <<pc, exitCode, driverFailure>>
    ELSE /\ initPc' = "thrown"
         /\ Throw
         /\ driverFailure' = stage

\* A failed assert aborts the process.
AssertFails(message) ==
    /\ assertFailed' = message
    /\ initPc' = "aborted"
    /\ pc' = "aborted"
    /\ UNCHANGED <<exitCode, driverFailure>>

InstanceExtensionNames == {"VK_KHR_surface", "VK_KHR_xcb_surface"}
validationLayers == {"VK_LAYER_KHRONOS_validation"}
LayerNames == validationLayers \cup {"VK_LAYER_LUNARG_api_dump"}

\* What glfwGetRequiredInstanceExtensions, vkEnumerateInstanceExtensionProperties
\* and vkEnumerateInstanceLayerProperties may report, and the build (NDEBUG or not).
InstanceEnvs ==
    [required : SUBSET InstanceExtensionNames,
     supported : SUBSET InstanceExtensionNames,
     enableValidationLayers : BOOLEAN,
     availableLayers : SUBSET LayerNames]

\* Variant: the required extensions accepted as soon as one of them is supported.
validateRequiredExtensions_AnyFound(requiredExtensions, extensions) ==
    requiredExtensions = {} \/
    \E requiredExtension \in requiredExtensions :
        \E ext \in extensions : requiredExtension = ext

\* validateRequiredExtensions returns (TRUE) or throws (FALSE).
validateRequiredExtensions(requiredExtensions, extensions) ==
    \A requiredExtension \in requiredExtensions :
        \E ext \in extensions : requiredExtension = ext

checkValidationLayerSupport(availableLayers) ==
    \A layer \in validationLayers :
        \E availableLayer \in availableLayers : layer = availableLayer

\* createInstance: the layer check, the extension check, then vkCreateInstance.
CreateInstance ==
    /\ pc = "initVulkan"
    /\ initPc = "createInstance"
    /\ IF instanceEnv.enableValidationLayers
          /\ ~checkValidationLayerSupport(instanceEnv.availableLayers)
       THEN /\ StageEnds("createInstance", FALSE)
            /\ UNCHANGED instanceCreateInfo
       ELSE IF ~validateRequiredExtensions(instanceEnv.required, instanceEnv.supported)
       THEN /\ StageEnds("createInstance", FALSE)
            /\ UNCHANGED instanceCreateInfo
       ELSE /\ instanceCreateInfo' =
                  [attempted |-> TRUE,
                   enabledExtensions |-> instanceEnv.required,
                   enabledLayers |-> IF instanceEnv.enableValidationLayers
                                     THEN validationLayers ELSE {}]
            /\ \E res \in {"VK_SUCCESS", "VK_ERROR_INCOMPATIBLE_DRIVER"} :
                  StageEnds("createInstance", res = "VK_SUCCESS")
    /\ UNCHANGED <<instanceEnv, resolvedIndices, queueCreateInfos, graphicsQueue,
                   presentQueue, commandPool, assertFailed>>
    /\ UNCHANGED <<loopVars, pickVars, chainVars, chooseVars, cleanupVars>>

\* A stage that makes driver objects from what the earlier stages left and
\* throws when the driver refuses.
CreateObjects(stage) ==
    /\ pc = "initVulkan"
    /\ \E ok \in BOOLEAN : StageEnds(stage, ok)
    /\ UNCHANGED <<instanceEnv, instanceCreateInfo, resolvedIndices, queueCreateInfos,
                   graphicsQueue, presentQueue, commandPool, assertFailed>>
    /\ UNCHANGED <<loopVars, pickVars, chainVars, chooseVars, cleanupVars>>

CreateSurface ==
    /\ initPc = "createSurface"
    /\ CreateObjects("createSurface")

CreateImageViews ==
    /\ initPc = "createImageViews"
    /\ CreateObjects("createImageViews")

CreateRenderPass ==
    /\ initPc = "createRenderPass"
    /\ CreateObjects("createRenderPass")

CreateGraphicsPipeline ==
    /\ initPc = "createGraphicsPipeline"
    /\ CreateObjects("createGraphicsPipeline")

CreateFramebuffers ==
    /\ initPc = "createFramebuffers"
    /\ CreateObjects("createFramebuffers")

CreateCommandBuffer ==
    /\ initPc = "createCommandBuffer"
    /\ CreateObjects("createCommandBuffer")


\* initVulkan calls pickPhysicalDevice ...
PickPhysicalDeviceCall ==
    /\ pc = "initVulkan"
    /\ initPc = "pickPhysicalDevice"
    /\ pickPc = "done"
    /\ pickPc' = "enumerate"
    /\ UNCHANGED <<deviceCount, devIdx, physicalDevice, pickError, qualifiedLog>>
    /\ UNCHANGED <<frameVars, chainVars, chooseVars, initVars, cleanupVars>>

\* ... which returns with a device selected, or throws.
PickPhysicalDeviceReturn ==
    /\ pc = "initVulkan"
    /\ initPc = "pickPhysicalDevice"
    /\ pickPc \in {"selected", "thrown"}
    /\ StageEnds("pickPhysicalDevice", pickPc = "selected")
    /\ UNCHANGED <<instanceEnv, instanceCreateInfo, resolvedIndices, queueCreateInfos,
                   graphicsQueue, presentQueue, commandPool, assertFailed>>
    /\ UNCHANGED <<loopVars, pickVars, chainVars, chooseVars, cleanupVars>>

\* Variant: one queue-create entry per slot, equal indices or not.
QueueCreateInfos_NoDedup(indices) ==
    <<[queueFamilyIndex |-> indices.graphicsFamily, queueCount |-> 1],
      [queueFamilyIndex |-> indices.presentFamily, queueCount |-> 1]>>

\* One VkDeviceQueueCreateInfo per element of the std::set of the two indices,
\* in ascending order.
QueueCreateInfos(indices) ==
    IF indices.graphicsFamily = indices.presentFamily
    THEN <<[queueFamilyIndex |-> indices.graphicsFamily, queueCount |-> 1]>>
    ELSE IF indices.graphicsFamily < indices.presentFamily
    THEN <<[queueFamilyIndex |-> indices.graphicsFamily, queueCount |-> 1],
           [queueFamilyIndex |-> indices.presentFamily, queueCount |-> 1]>>
    ELSE <<[queueFamilyIndex |-> indices.presentFamily, queueCount |-> 1],
           [queueFamilyIndex |-> indices.graphicsFamily, queueCount |-> 1]>>

\* createLogicalDevice: asserts the resolution complete, creates the device with
\* the queue-create list and takes queue 0 of each resolved family.
CreateLogicalDevice ==
    /\ pc = "initVulkan"
    /\ initPc = "createLogicalDevice"
    /\ LET indices == findQueueFamilies(physicalDevice) IN
       IF ~isComplete(indices)
       THEN /\ AssertFails("Physical device should have supporting queue families")
            /\ UNCHANGED <<queueCreateInfos, graphicsQueue, presentQueue>>
       ELSE /\ queueCreateInfos' = QueueCreateInfos(indices)
            /\ UNCHANGED assertFailed
            /\ \E res \in {"VK_SUCCESS", "VK_ERROR_INITIALIZATION_FAILED"} :
                  /\ StageEnds("createLogicalDevice", res = "VK_SUCCESS")
                  /\ IF res = "VK_SUCCESS"
                     THEN /\ graphicsQueue' =
                                [family |-> indices.graphicsFamily, index |-> 0]
                          /\ presentQueue' =
                                [family |-> indices.presentFamily, index |-> 0]
                     ELSE UNCHANGED <<graphicsQueue, presentQueue>>
    /\ UNCHANGED <<instanceEnv, instanceCreateInfo, resolvedIndices, commandPool>>
    /\ UNCHANGED <<loopVars, pickVars, chainVars, chooseVars, cleanupVars>>

\* The surface and the window as createSwapChain finds them at startup: the
\* window is WIDTH x HEIGHT and not resizable.
WIDTH == 800
HEIGHT == 600

SetupCapabilitySets ==
    {caps \in CapabilitySets :
        /\ caps.minImageCount = 1
        /\ caps.maxImageCount = 0
        /\ caps.currentExtent = [width |-> WIDTH, height |-> HEIGHT]}

\* initVulkan calls createSwapChain ...
CreateSwapChainCall ==
    /\ pc = "initVulkan"
    /\ initPc = "createSwapChain"
    /\ chainPc = "done"
    /\ chainPc' = "createSwapChain"
    /\ capabilities' \in SetupCapabilitySets
    /\ framebufferSize' = [width |-> WIDTH, height |-> HEIGHT]
    /\ UNCHANGED <<swapChainCreateInfo, chainImageCount>>
    /\ UNCHANGED <<frameVars, pickVars, chooseVars, initVars, cleanupVars>>

\* ... which returns, throws, or is aborted by an assert.
CreateSwapChainReturn ==
    /\ pc = "initVulkan"
    /\ initPc = "createSwapChain"
    /\ chainPc \in {"created", "thrown", "aborted"}
    /\ IF chainPc = "aborted"
       THEN /\ initPc' = "aborted"
            /\ pc' = "aborted"
            /\ UNCHANGED <<exitCode, driverFailure>>
       ELSE StageEnds("createSwapChain", chainPc = "created")
    /\ UNCHANGED <<instanceEnv, instanceCreateInfo, resolvedIndices, queueCreateInfos,
                   graphicsQueue, presentQueue, commandPool, assertFailed>>
    /\ UNCHANGED <<loopVars, pickVars, chainVars, chooseVars, cleanupVars>>

\* Variant: the pool made for the present family.
CommandPoolInfo_PresentFamily(indices) ==
    [queueFamilyIndex |-> indices.presentFamily]

CommandPoolInfo(indices) ==
    [queueFamilyIndex |-> indices.graphicsFamily]

\* createCommandPool resolves the families again and makes the pool for the
\* graphics family.
CreateCommandPool ==
    /\ pc = "initVulkan"
    /\ initPc = "createCommandPool"
    /\ commandPool' = CommandPoolInfo(findQueueFamilies(physicalDevice))
    /\ \E ok \in BOOLEAN : StageEnds("createCommandPool", ok)
    /\ UNCHANGED <<instanceEnv, instanceCreateInfo, resolvedIndices, queueCreateInfos,
                   graphicsQueue, presentQueue, assertFailed>>
    /\ UNCHANGED <<loopVars, pickVars, chainVars, chooseVars, cleanupVars>>

\* createSyncPrimitives is the last stage: when it returns, initVulkan returns
\* and run() enters mainLoop.
CreateSyncPrimitives ==
    /\ pc = "initVulkan"
    /\ initPc = "createSyncPrimitives"
    /\ \E ok \in BOOLEAN :
          IF ok
          THEN /\ initPc' = "done"
               /\ pc' = "loop"
               /\ inFlightFence' = createSyncPrimitives.inFlightFence
               /\ imageAvailableSemaphore' = createSyncPrimitives.imageAvailableSemaphore
               /\ renderFinishedSemaphore' = createSyncPrimitives.renderFinishedSemaphore
               /\ swapChainImages' = [i \in 0..(chainImageCount - 1) |-> FreeImage]
               /\ UNCHANGED <<exitCode, driverFailure>>
          ELSE /\ StageEnds("createSyncPrimitives", FALSE)
               /\ UNCHANGED <<inFlightFence, imageAvailableSemaphore,
                              renderFinishedSemaphore, swapChainImages>>
    /\ UNCHANGED <<frame, closeRequested, shouldClose, imageIndex, commandBuffer,
                   graphicsQueueWork, presentQueueWork, destroyed, lastSubmitted,
                   fenceObserved>>
    /\ UNCHANGED <<instanceEnv, instanceCreateInfo, resolvedIndices, queueCreateInfos,
                   graphicsQueue, presentQueue, commandPool, assertFailed>>
    /\ UNCHANGED <<pickVars, chainVars, chooseVars, cleanupVars>>

\* The loader and window system initVulkan as a whole is run against: everything
\* offered, or one required extension missing.
SetupInstanceEnvs ==
    {env \in InstanceEnvs :
        /\ env.required = InstanceExtensionNames
        /\ env.enableValidationLayers
        /\ env.availableLayers = validationLayers
        /\ "VK_KHR_surface" \in env.supported}

InitSetup ==
    /\ FrameIdle
    /\ PickIdle
    /\ ChainIdle
    /\ ChooseIdle
    /\ CleanupIdle
    /\ initPc = "createInstance"
    /\ instanceEnv \in SetupInstanceEnvs
    /\ instanceCreateInfo = NoInstanceCreateInfo
    /\ resolvedIndices = NoIndices
    /\ queueCreateInfos = <<>>
    /\ graphicsQueue = NoQueue
    /\ presentQueue = NoQueue
    /\ commandPool = [queueFamilyIndex |-> NoValue]
    /\ assertFailed = "none"

NextSetup ==
    \/ CreateInstance
    \/ CreateSurface
    \/ PickPhysicalDeviceCall
    \/ EnumeratePhysicalDevices
    \/ ExamineDevice
    \/ NoSuitableDevice
    \/ PickPhysicalDeviceReturn
    \/ CreateLogicalDevice
    \/ CreateSwapChainCall
    \/ CreateSwapChain
    \/ CreateSwapChainReturn
    \/ CreateImageViews
    \/ CreateRenderPass
    \/ CreateGraphicsPipeline
    \/ CreateFramebuffers
    \/ CreateCommandPool
    \/ CreateCommandBuffer
    \/ CreateSyncPrimitives

SpecSetup == InitSetup /\ [][NextSetup]_vars

\* createInstance against every loader and window system, followed by the stage
\* after it.
InitInstance ==
    /\ FrameIdle
    /\ PickIdle
    /\ ChainIdle
    /\ ChooseIdle
    /\ CleanupIdle
    /\ initPc = "createInstance"
    /\ instanceEnv \in InstanceEnvs
    /\ instanceCreateInfo = NoInstanceCreateInfo
    /\ resolvedIndices = NoIndices
    /\ queueCreateInfos = <<>>
    /\ graphicsQueue = NoQueue
    /\ presentQueue = NoQueue
    /\ commandPool = [queueFamilyIndex |-> NoValue]
    /\ assertFailed = "none"

NextInstance ==
    \/ CreateInstance
    \/ CreateSurface

SpecInstance == InitInstance /\ [][NextInstance]_vars

(***************************************************************************)
(* run() from its start: initWindow, initVulkan, mainLoop, cleanup.        *)
(***************************************************************************)
\* The steps of initVulkan; each of them throws when the driver refuses.
SetupSteps ==
    {"createInstance", "createSurface", "pickPhysicalDevice", "createLogicalDevice",
     "createSwapChain", "createImageViews", "createRenderPass",
     "createGraphicsPipeline", "createFramebuffers", "createCommandPool",
     "createCommandBuffer", "createSyncPrimitives"}

\* initVulkan: either one of its steps throws, or it leaves a chain of
\* 1..MaxImages images, the command buffer and the synchronisation primitives.
InitVulkan ==
    /\ pc = "initVulkan"
    /\ \E failed \in SetupSteps \cup {"none"} :
          IF failed = "none"
          THEN /\ pc' = "loop"
               /\ inFlightFence' = createSyncPrimitives.inFlightFence
               /\ imageAvailableSemaphore' = createSyncPrimitives.imageAvailableSemaphore
               /\ renderFinishedSemaphore' = createSyncPrimitives.renderFinishedSemaphore
               /\ \E n \in 1..MaxImages :
                     swapChainImages' = [i \in 0..(n - 1) |-> FreeImage]
               /\ UNCHANGED <<exitCode, driverFailure>>
          ELSE /\ Throw
               /\ driverFailure' = failed
               /\ UNCHANGED <<inFlightFence, imageAvailableSemaphore,
                              renderFinishedSemaphore, swapChainImages>>
    /\ UNCHANGED setupVars
    /\ UNCHANGED <<frame, closeRequested, shouldClose, imageIndex, commandBuffer,
                   graphicsQueueWork, presentQueueWork, destroyed, lastSubmitted,
                   fenceObserved>>

InitRun ==
    /\ FrameIdle
    /\ PickIdle
    /\ ChainIdle
    /\ ChooseIdle
    /\ InitVulkanIdle
    /\ CleanupIdle

NextRun ==
    \/ InitVulkan
    \/ Next

SpecRun == InitRun /\ [][NextRun]_vars

Init ==
    /\ InitFrame
    /\ PickIdle
    /\ ChainIdle
    /\ ChooseIdle
    /\ InitVulkanIdle
    /\ CleanupIdle

Spec == Init /\ [][Next]_vars

\* The frame loop with the progress of the host, the GPU and the presentation
\* engine.
SpecLive == Init /\ [][Next]_vars /\ HostProgress /\ GpuProgress /\ PeProgress

(***************************************************************************)
(* Properties.                                                             *)
(***************************************************************************)
AllFalse(log) == \A j \in DOMAIN log : ~log[j]

FirstQualifyingSelected ==
    /\ pickPc = "scan" => AllFalse(qualifiedLog) /\ Len(qualifiedLog) = devIdx - 1
    /\ pickPc = "selected" =>
          /\ qualifiedLog # <<>>
          /\ qualifiedLog[Len(qualifiedLog)]
          /\ AllFalse(SubSeq(qualifiedLog, 1, Len(qualifiedLog) - 1))
          /\ Qualifies(physicalDevice)
          /\ Len(qualifiedLog) <= deviceCount

NoneQualifiesThrown ==
    /\ pickError = "Failed to find a suitable GPU"
    /\ Len(qualifiedLog) = deviceCount
    /\ AllFalse(qualifiedLog)
    /\ physicalDevice = NullDevice

\* C1 (as stated): pickPhysicalDevice selects the first device in enumeration
\* order that qualifies (graphics and present families, every required extension,
\* non-empty format and present-mode lists), never a device that fails one of the
\* three nor a later one over an earlier one, and for every device list in which
\* no device qualifies it fails with the 'no suitable device' error.
C1_FirstFit_Original ==
    /\ FirstQualifyingSelected
    /\ pickPc = "thrown" => NoneQualifiesThrown

\* C1 (amended): as above for every non-empty device list; when the instance
\* enumerates no device at all the failure is the 'no GPU' error instead.
C1_FirstFit ==
    /\ FirstQualifyingSelected
    /\ pickPc = "thrown" =>
          IF deviceCount = 0
          THEN /\ pickError = "failed to find GPUs with Vulkan support"
               /\ qualifiedLog = <<>>
               /\ physicalDevice = NullDevice
          ELSE NoneQualifiesThrown

\* C1 witness: the second device enumerated is selected after the first was rejected.
C1_Witness ==
    /\ pickPc = "selected"
    /\ Len(qualifiedLog) = 2
    /\ Len(physicalDevice.queueFamilies) = 2

\* C2: the host resets and re-records the command buffer of a frame only after
\* it observed the fence of the previous submission signaled; at most one
\* submission is outstanding, and none while the host writes the command buffer.
C2_RecordAfterFence ==
    /\ Len(graphicsQueueWork) <= 1
    /\ pc \in {"record", "submit"} =>
          /\ graphicsQueueWork = <<>>
          /\ fenceObserved = lastSubmitted
          /\ commandBuffer.state # "pending"

\* C2 witness: the second frame's command buffer has been recorded after the
\* first frame was submitted.
C2_Witness ==
    /\ pc = "submit"
    /\ frame = 2
    /\ lastSubmitted = 1
    /\ commandBuffer.frame = 2

\* C3: a submission is in its colour-attachment-output stage only after the
\* image-acquired semaphore signaled by the same frame's acquire was signaled
\* (and consumed by this submission's wait).
C3_ColorAfterAcquire ==
    \A k \in DOMAIN graphicsQueueWork :
        graphicsQueueWork[k].stage = "color" =>
            graphicsQueueWork[k].imageAvailableFrom = graphicsQueueWork[k].frame

\* C3 witness: a later frame's submission writes its image; before that, its
\* earlier stages ran while the semaphore was still unsignaled.
C3_Witness ==
    \E k \in DOMAIN graphicsQueueWork :
        /\ graphicsQueueWork[k].stage = "color"
        /\ graphicsQueueWork[k].frame = 2

\* Frame f was submitted and its submission has completed.
Rendered(f) ==
    /\ f >= 1
    /\ f <= lastSubmitted
    /\ \A k \in DOMAIN graphicsQueueWork : graphicsQueueWork[k].frame # f

\* C4: the presentation engine reads a chain image only after the submission
\* that renders into it has finished, and no image is at once written by the
\* graphics queue and read by the presentation engine.
C4_PresentAfterRender ==
    /\ \A i \in ImageSlots :
          swapChainImages[i].owner = "presenting" => Rendered(swapChainImages[i].frame)
    /\ \A k \in DOMAIN graphicsQueueWork :
          (graphicsQueueWork[k].stage = "color"
             /\ graphicsQueueWork[k].framebuffer \in ImageSlots)
          => swapChainImages[graphicsQueueWork[k].framebuffer].owner # "presenting"

\* C5: cleanup's destroy calls happen only after the loop was left and
\* vkDeviceWaitIdle returned: nothing is destroyed while a submission or a queued
\* present is outstanding, and nothing at all on the paths where a frame throws.
C5_DestroyAfterIdle ==
    /\ pc = "cleanup" => graphicsQueueWork = <<>> /\ presentQueueWork = <<>>
    /\ destroyed =>
          /\ graphicsQueueWork = <<>>
          /\ presentQueueWork = <<>>
          /\ shouldClose
          /\ exitCode = EXIT_SUCCESS
    /\ exitCode = EXIT_FAILURE => ~destroyed

\* C5 witness: the objects were destroyed after frames had been submitted.
C5_Witness ==
    /\ destroyed
    /\ lastSubmitted >= 2

\* C6: once the acquire, the submit or the present call of a frame returned a
\* failure status, the loop has terminated with an error: no later step runs.
C6_FailureEndsLoop ==
    driverFailure # "none" => pc = "exit" /\ exitCode = EXIT_FAILURE

\* C7: the fence is created signaled, so the fence wait of the first frame
\* returns although nothing has been submitted.
C7_FirstFrameReady ==
    (pc = "waitFence" /\ lastSubmitted = 0) => inFlightFence = "signaled"

\* C7 witness: the first frame's wait has returned with no submission made.
C7_Witness ==
    /\ pc = "resetFence"
    /\ frame = 1
    /\ lastSubmitted = 0
    /\ graphicsQueueWork = <<>>

\* The host is inside drawFrame and the call it is at cannot return.
HostSuspended == pc \in FramePcs /\ ~ENABLED HostReturns

C9_SharingMode ==
    chainPc # "createSwapChain" =>
        LET indices == findQueueFamilies(physicalDevice)
            list == swapChainCreateInfo.pQueueFamilyIndices
        IN  IF indices.graphicsFamily # indices.presentFamily
            THEN /\ swapChainCreateInfo.imageSharingMode = "VK_SHARING_MODE_CONCURRENT"
                 /\ swapChainCreateInfo.queueFamilyIndexCount = 2
                 /\ Len(list) = 2
                 /\ {list[j] : j \in DOMAIN list} =
                       {indices.graphicsFamily, indices.presentFamily}
            ELSE /\ swapChainCreateInfo.imageSharingMode = "VK_SHARING_MODE_EXCLUSIVE"
                 /\ swapChainCreateInfo.queueFamilyIndexCount = 0
                 /\ list = <<>>

\* C9 witness: a chain created in the concurrent mode for families 0 and 1.
C9_Witness ==
    /\ chainPc = "created"
    /\ swapChainCreateInfo.imageSharingMode = "VK_SHARING_MODE_CONCURRENT"
    /\ swapChainCreateInfo.queueFamilyIndexCount = 2

\* C10: the image count requested is min(minImageCount + 1, maxImageCount) when
\* maxImageCount is non-zero and minImageCount + 1 when it is 0.
C10_ImageCount ==
    chainPc # "createSwapChain" =>
        swapChainCreateInfo.minImageCount =
            IF capabilities.maxImageCount # 0
               /\ capabilities.maxImageCount < capabilities.minImageCount + 1
            THEN capabilities.maxImageCount
            ELSE capabilities.minImageCount + 1

\* C10 witness: minImageCount = 2 and maxImageCount = 2 give 2.
C10_Witness ==
    /\ chainPc = "created"
    /\ capabilities.minImageCount = 2
    /\ capabilities.maxImageCount = 2
    /\ swapChainCreateInfo.minImageCount = 2

Clamped(v, lo, hi) ==
    LET least == IF v < hi THEN v ELSE hi IN
    IF least < lo THEN lo ELSE least

\* C12: the extent asked for is the surface's current extent, unchanged, when the
\* surface reports a defined one; when the current extent is the undefined
\* sentinel it is the framebuffer size clamped component-wise into
\* [minImageExtent, maxImageExtent].
C12_Extent ==
    chainPc # "createSwapChain" =>
        IF capabilities.currentExtent # UndefinedExtent
        THEN swapChainCreateInfo.imageExtent = capabilities.currentExtent
        ELSE /\ swapChainCreateInfo.imageExtent.width =
                   Clamped(framebufferSize.width, capabilities.minImageExtent.width,
                           capabilities.maxImageExtent.width)
             /\ swapChainCreateInfo.imageExtent.height =
                   Clamped(framebufferSize.height, capabilities.minImageExtent.height,
                           capabilities.maxImageExtent.height)

\* C12 witness: the sentinel, a 1920x1080 framebuffer and bounds (1,1)..(1024,1024)
\* give (1024,1024).
C12_Witness ==
    /\ chainPc = "created"
    /\ capabilities.currentExtent = UndefinedExtent
    /\ framebufferSize = [width |-> 1920, height |-> 1080]
    /\ capabilities.minImageExtent = [width |-> 1, height |-> 1]
    /\ capabilities.maxImageExtent = [width |-> 1024, height |-> 1024]
    /\ swapChainCreateInfo.imageExtent = [width |-> 1024, height |-> 1024]

Elements(list) == {list[j] : j \in DOMAIN list}

\* C13: for every non-empty list of (format, colorSpace) pairs
\* chooseSwapSurfaceFormat returns the 8-bit BGRA sRGB pair with the sRGB
\* non-linear colour space if the list holds one and the first entry of the list
\* otherwise; what it returns is always an element of the list.
C13_SurfaceFormat ==
    chooserCall.fn = "chooseSwapSurfaceFormat" =>
        /\ chooserCall.result \in Elements(chooserCall.arg)
        /\ IF BGRA_SRGB \in Elements(chooserCall.arg)
           THEN chooserCall.result = BGRA_SRGB
           ELSE chooserCall.result = chooserCall.arg[1]

\* C13 witness: the preferred pair is second in the list and is returned.
C13_Witness ==
    /\ chooserCall.fn = "chooseSwapSurfaceFormat"
    /\ Len(chooserCall.arg) = 2
    /\ chooserCall.arg[1].format = "VK_FORMAT_B8G8R8A8_SRGB"
    /\ chooserCall.arg[1] # BGRA_SRGB
    /\ chooserCall.arg[2] = BGRA_SRGB
    /\ chooserCall.result = BGRA_SRGB

\* C14: for every non-empty list of present modes chooseSwapPresentMode returns
\* the mailbox mode if the set of listed modes contains it and the FIFO mode
\* otherwise; a second call on the same list returns the same mode.
C14_PresentMode ==
    chooserCall.fn = "chooseSwapPresentMode" =>
        /\ chooserCall.result =
              IF "VK_PRESENT_MODE_MAILBOX_KHR" \in Elements(chooserCall.arg)
              THEN "VK_PRESENT_MODE_MAILBOX_KHR"
              ELSE "VK_PRESENT_MODE_FIFO_KHR"
        /\ chooserCall.again = chooserCall.result

\* C14 witness: mailbox listed after another mode is returned.
C14_Witness ==
    /\ chooserCall.fn = "chooseSwapPresentMode"
    /\ chooserCall.arg = <<"VK_PRESENT_MODE_IMMEDIATE_KHR", "VK_PRESENT_MODE_MAILBOX_KHR">>
    /\ chooserCall.result = "VK_PRESENT_MODE_MAILBOX_KHR"

\* C15: when the instance enumerates no physical device pickPhysicalDevice fails
\* with the 'no GPU' error and selects no device; that error is another one than
\* the 'no suitable device' error, which is raised only when devices exist and
\* none qualifies.
C15_NoGpuError ==
    /\ (pickPc # "enumerate" /\ deviceCount = 0) =>
          /\ pickPc = "thrown"
          /\ pickError = "failed to find GPUs with Vulkan support"
          /\ pickError # "Failed to find a suitable GPU"
          /\ physicalDevice = NullDevice
          /\ qualifiedLog = <<>>
    /\ pickError = "failed to find GPUs with Vulkan support" => deviceCount = 0
    /\ pickError = "Failed to find a suitable GPU" =>
          /\ deviceCount > 0
          /\ Len(qualifiedLog) = deviceCount
          /\ AllFalse(qualifiedLog)

\* C15 witness: no device was enumerated and the 'no GPU' error was thrown.
C15_Witness ==
    /\ pickPc = "thrown"
    /\ deviceCount = 0
    /\ pickError = "failed to find GPUs with Vulkan support"
    /\ physicalDevice = NullDevice

\* C16: main returns 0 exactly when run() went through setup, the frame loop
\* and cleanup and returned; whenever an exception left run(), thrown by a step of
\* initVulkan or by a frame, main returns a non-zero code.
C16_ExitCode ==
    /\ exitCode = 0 <=> (pc = "exit" /\ destroyed)
    /\ destroyed => (shouldClose /\ driverFailure \notin SetupSteps)
    /\ (pc = "exit" /\ ~destroyed) => (exitCode # 0 /\ exitCode = EXIT_FAILURE)
    /\ driverFailure \in SetupSteps => (pc = "exit" /\ exitCode # 0 /\ frame = 0)
    /\ commandBuffer.state = "invalid" => (pc = "exit" /\ exitCode # 0)
    /\ pc # "exit" => exitCode = -1

\* C16 witness: the second frame's submit failed and main returned EXIT_FAILURE.
C16_Witness ==
    /\ pc = "exit"
    /\ frame = 2
    /\ driverFailure = "submit"
    /\ exitCode = EXIT_FAILURE
    /\ ~destroyed

\* The order of the host's statements: each pair is a statement and the one
\* control may pass to from it.
StepOrder ==
    {<<"loop", "waitFence">>, <<"loop", "waitIdle">>,
     <<"waitFence", "resetFence">>, <<"resetFence", "acquire">>,
     <<"acquire", "record">>, <<"record", "submit">>, <<"record", "exit">>,
     <<"submit", "present">>, <<"submit", "exit">>, <<"present", "loop">>,
     <<"waitIdle", "cleanup">>, <<"cleanup", "exit">>}

\* C17: every iteration of the frame loop goes once through wait on the fence,
\* reset of the fence, acquire, reset and recording of the command buffer, submit
\* (signaling render-finished and the fence) and the present request, in this
\* order (an iteration whose recording or submit throws ends there); an iteration
\* begins only after the present request of the one before was issued.
C17_StepOrder ==
    [][/\ pc' # pc => <<pc, pc'>> \in StepOrder
       /\ frame' # frame =>
             (pc = "loop" /\ pc' = "waitFence" /\ frame' = frame + 1)
       /\ (pc = "loop" /\ pc' = "waitFence") => frame' = frame + 1
       /\ (pc = "waitFence" /\ pc' # pc) => inFlightFence = "signaled"
       /\ (inFlightFence = "signaled" /\ inFlightFence' = "unsignaled") =>
             (pc = "resetFence" /\ pc' = "acquire")
       /\ (pc = "resetFence" /\ pc' # pc) => inFlightFence' = "unsignaled"
       /\ imageIndex' # imageIndex =>
             ((pc = "acquire" /\ pc' = "record") \/ (pc = "loop" /\ pc' = "waitFence"))
       /\ commandBuffer'.frame # commandBuffer.frame =>
             (pc = "record" /\ commandBuffer'.frame = frame)
       /\ Len(graphicsQueueWork') > Len(graphicsQueueWork) =>
             /\ pc = "submit" /\ pc' = "present"
             /\ Len(graphicsQueueWork') = Len(graphicsQueueWork) + 1
             /\ graphicsQueueWork'[Len(graphicsQueueWork')].frame = frame
             /\ graphicsQueueWork'[Len(graphicsQueueWork')].signalSemaphore =
                   "renderFinishedSemaphore"
             /\ graphicsQueueWork'[Len(graphicsQueueWork')].fence = "inFlightFence"
             /\ commandBuffer.frame = frame
       /\ (pc = "submit" /\ pc' = "present") =>
             Len(graphicsQueueWork') = Len(graphicsQueueWork) + 1
       /\ Len(presentQueueWork') > Len(presentQueueWork) =>
             /\ pc = "present" /\ pc' = "loop"
             /\ presentQueueWork'[Len(presentQueueWork')].frame = frame
             /\ lastSubmitted = frame
      ]_vars

\* C17 witness: two whole iterations were performed, none of their calls failing.
C17_Witness ==
    /\ pc = "loop"
    /\ frame = 2
    /\ lastSubmitted = 2
    /\ driverFailure = "none"

\* C18 (as stated): when a semaphore is signaled or armed for a frame, it is
\* unsignaled and no wait issued on it by an earlier frame is still pending: the
\* acquire arms image-acquired only when no earlier submission still waits on it,
\* and a submission signals render-finished only when the present request of every
\* earlier frame has had its wait satisfied.
C18_SemaphoreOwnedByOneFrame ==
    [][/\ (renderFinishedSemaphore' # renderFinishedSemaphore
            /\ renderFinishedSemaphore'.state = "signaled") =>
             /\ renderFinishedSemaphore.state = "unsignaled"
             /\ \A j \in DOMAIN presentQueueWork :
                   presentQueueWork[j].frame >= renderFinishedSemaphore'.by
       /\ (imageAvailableSemaphore' # imageAvailableSemaphore
            /\ imageAvailableSemaphore'.state = "pending") =>
             /\ imageAvailableSemaphore.state = "unsignaled"
             /\ \A k \in DOMAIN graphicsQueueWork :
                   graphicsQueueWork[k].frame >= imageAvailableSemaphore'.by
      ]_vars

\* C19: in every frame the framebuffer the command buffer is recorded against
\* and the image named in the present request are the index that frame's acquire
\* returned, an image the frame holds: a frame presents the image it rendered into.
C19_SameImage ==
    /\ pc \in {"record", "submit", "present"} =>
          /\ imageIndex \in ImageSlots
          /\ swapChainImages[imageIndex] = [owner |-> "acquired", frame |-> frame]
    /\ pc \in {"submit", "present"} =>
          /\ commandBuffer.frame = frame
          /\ commandBuffer.framebuffer = imageIndex
    /\ pc = "present" => PresentInfo.image = commandBuffer.framebuffer
    /\ \A j \in DOMAIN presentQueueWork :
          presentQueueWork[j].image \in ImageSlots =>
             /\ swapChainImages[presentQueueWork[j].image].owner = "queued"
             /\ swapChainImages[presentQueueWork[j].image].frame = presentQueueWork[j].frame

\* C20: the close request is examined once per loop iteration, at the loop test
\* before the iteration's frame begins; a frame that has begun is not cancelled
\* by a close request: from the recording on, control reaches the submit before it
\* is back at the loop test, unless the recording or the submit throws.
C20_CloseCheckedBetweenFrames ==
    [][/\ (pc' = "waitIdle" /\ pc # "waitIdle") => (pc = "loop" /\ shouldClose)
       /\ (pc = "loop" /\ pc' # pc) =>
             IF shouldClose THEN pc' = "waitIdle" ELSE pc' = "waitFence"
       /\ shouldClose' # shouldClose => (pc = "loop" /\ pc' = "waitFence")
       /\ pc \in FramePcs => pc' \in FramePcs \cup {"loop", "exit"}
       /\ (pc \in FramePcs /\ pc' = "exit") =>
             (pc \in {"record", "submit"} /\ exitCode' = EXIT_FAILURE)
       /\ (pc \in FramePcs /\ pc' = "loop") => (pc = "present" /\ lastSubmitted = frame)
       /\ (pc = "record" /\ pc' # pc /\ pc' # "exit") => pc' = "submit"
       /\ (pc = "submit" /\ pc' # pc /\ pc' # "exit") => lastSubmitted' = frame
      ]_vars

\* C20 witness: the close request arrived after the first frame began and the
\* frame has been submitted all the same.
C20_Witness ==
    /\ closeRequested
    /\ ~shouldClose
    /\ frame = 1
    /\ pc = "present"
    /\ lastSubmitted = 1

\* C21: for every queue-family list in which some single family supports both
\* graphics and presentation, findQueueFamilies stores one and the same family
\* index in the graphics slot and in the present slot.
C21_SameFamilyBothSlots ==
    chooserCall.fn = "findQueueFamilies" =>
        ((\E j \in DOMAIN chooserCall.arg :
              chooserCall.arg[j].graphics /\ chooserCall.arg[j].present)
         => /\ chooserCall.result.graphicsFamily # NoValue
            /\ chooserCall.result.graphicsFamily = chooserCall.result.presentFamily)

\* C27: createInstance calls vkCreateInstance only when every extension the
\* window system requires is supported and, with validation enabled, every
\* requested layer is available; when one is missing, createInstance throws
\* before the call and no later stage of initVulkan runs.
C27_InstanceOnlyWhenSupported ==
    LET extensionsOk == instanceEnv.required \subseteq instanceEnv.supported
        layersOk == instanceEnv.enableValidationLayers =>
                        validationLayers \subseteq instanceEnv.availableLayers
    IN /\ instanceCreateInfo.attempted => (extensionsOk /\ layersOk)
       /\ (~(extensionsOk /\ layersOk) /\ initPc # "createInstance") =>
             /\ initPc = "thrown"
             /\ ~instanceCreateInfo.attempted
             /\ driverFailure = "createInstance"
             /\ pc = "exit"
             /\ exitCode = EXIT_FAILURE

\* C27 witness: one of the two required extensions is not supported, and
\* createInstance has thrown without calling vkCreateInstance.
C27_Witness ==
    /\ instanceEnv.required = InstanceExtensionNames
    /\ instanceEnv.supported = {"VK_KHR_surface"}
    /\ instanceEnv.enableValidationLayers
    /\ validationLayers \subseteq instanceEnv.availableLayers
    /\ initPc = "thrown"
    /\ ~instanceCreateInfo.attempted

\* C22: once createLogicalDevice has made the device, the queue-create list has
\* exactly one entry, of one queue, per distinct resolved family index (one
\* entry when the graphics and present indices are equal, two entries with
\* different indices when they differ), the graphics queue is queue 0 of the
\* graphics family and the present queue is queue 0 of the present family, and
\* both were requested in the list.
C22_QueuePerDistinctFamily ==
    graphicsQueue # NoQueue =>
        LET requested == {queueCreateInfos[j].queueFamilyIndex : j \in DOMAIN queueCreateInfos}
            g == resolvedIndices.graphicsFamily
            p == resolvedIndices.presentFamily
        IN /\ g # NoValue /\ p # NoValue
           /\ Len(queueCreateInfos) = (IF g = p THEN 1 ELSE 2)
           /\ Cardinality(requested) = Len(queueCreateInfos)
           /\ requested = {g, p}
           /\ \A j \in DOMAIN queueCreateInfos : queueCreateInfos[j].queueCount = 1
           /\ graphicsQueue = [family |-> g, index |-> 0]
           /\ presentQueue = [family |-> p, index |-> 0]
           /\ \A queue \in {graphicsQueue, presentQueue} :
                 \E j \in DOMAIN queueCreateInfos :
                    /\ queueCreateInfos[j].queueFamilyIndex = queue.family
                    /\ queue.index < queueCreateInfos[j].queueCount

\* C22 witness: the device was created with one family for both queues.
C22_Witness ==
    /\ graphicsQueue # NoQueue
    /\ graphicsQueue.family = presentQueue.family
    /\ Len(queueCreateInfos) = 1
    /\ initPc = "createSwapChain"

\* C24: the family indices of the device's queues, the indices behind the swap
\* chain's sharing mode and the family of the command pool are the indices that
\* were resolved when the chosen device was judged suitable.
C24_ResolutionStable ==
    LET g == resolvedIndices.graphicsFamily
        p == resolvedIndices.presentFamily
    IN /\ graphicsQueue # NoQueue =>
             /\ graphicsQueue.family = g
             /\ presentQueue.family = p
             /\ {queueCreateInfos[j].queueFamilyIndex : j \in DOMAIN queueCreateInfos} = {g, p}
       /\ chainPc \in {"created", "thrown"} =>
             /\ (swapChainCreateInfo.imageSharingMode = "VK_SHARING_MODE_CONCURRENT") <=> (g # p)
             /\ g # p => swapChainCreateInfo.pQueueFamilyIndices = <<g, p>>
       /\ commandPool.queueFamilyIndex # NoValue => commandPool.queueFamilyIndex = g

\* C24 witness: a device with separate graphics and present families went
\* through device, swap chain and command pool creation.
C24_Witness ==
    /\ initPc = "done"
    /\ resolvedIndices.graphicsFamily # resolvedIndices.presentFamily
    /\ graphicsQueue # NoQueue
    /\ chainPc = "created"
    /\ commandPool.queueFamilyIndex # NoValue

\* C25: no assert of the setup code fails: whenever createSwapChain is about to
\* call the choosers, the format list and the present-mode list it got are not
\* empty, and whenever createLogicalDevice is about to run, the queue-family
\* resolution of the selected device is complete.
C25_AssertionsHold ==
    /\ assertFailed = "none"
    /\ initPc # "aborted"
    /\ chainPc # "aborted"
    /\ pc # "aborted"
    /\ initPc = "createLogicalDevice" => isComplete(findQueueFamilies(physicalDevice))
    /\ chainPc = "createSwapChain" =>
          LET swapChainSupports == querySwapChainSupport(physicalDevice, capabilities)
          IN /\ swapChainSupports.formats # <<>>
             /\ swapChainSupports.presentModes # <<>>

\* C25 witness: createLogicalDevice and createSwapChain have both run past
\* their asserts.
C25_Witness ==
    /\ initPc = "createImageViews"
    /\ graphicsQueue # NoQueue
    /\ chainPc = "created"
    /\ assertFailed = "none"

\* C26: initVulkan moves through its stages in the order of the list, one
\* stage at a time and never back, so each stage runs at most once and only
\* after every earlier stage succeeded; device selection and swap chain
\* creation take their steps only within their own stage; a stage that fails
\* ends initVulkan and the program with no later stage run and no retry; and
\* the frame loop is entered only by the last stage succeeding.
C26_StagesInOrder ==
    [][/\ initPc' # initPc =>
             /\ \E j \in DOMAIN Stages : Stages[j] = initPc
             /\ \/ /\ initPc' = StageAfter(initPc)
                   /\ driverFailure' = "none"
                   /\ assertFailed' = "none"
                \/ /\ initPc' = "thrown"
                   /\ driverFailure' = initPc
                   /\ pc' = "exit"
                \/ /\ initPc' = "aborted"
                   /\ pc' = "aborted"
       /\ driverFailure' # driverFailure => initPc' = "thrown"
       /\ initPc \in {"thrown", "aborted", "done"} => initPc' = initPc
       /\ pickPc' # pickPc => (initPc = "pickPhysicalDevice" /\ initPc' = initPc)
       /\ chainPc' # chainPc => (initPc = "createSwapChain" /\ initPc' = initPc)
       /\ queueCreateInfos' # queueCreateInfos => initPc = "createLogicalDevice"
       /\ commandPool' # commandPool => initPc = "createCommandPool"
       /\ pc' # pc =>
             /\ pc = "initVulkan"
             /\ pc' = "loop" <=> (initPc = "createSyncPrimitives" /\ initPc' = "done")
      ]_vars

\* C26 witness: all twelve stages succeeded and the frame loop is entered.
C26_Witness ==
    /\ initPc = "done"
    /\ pc = "loop"
    /\ pickPc = "selected"
    /\ chainPc = "created"
    /\ driverFailure = "none"

\* C23: whatever the number of surface formats the device advertises, the
\* present-mode list querySwapChainSupport returns is the list the device
\* advertises for the surface, and it holds the mailbox mode whenever the
\* device advertises it.
C23_PresentModesAsAdvertised ==
    chooserCall.fn = "querySwapChainSupport" =>
        /\ chooserCall.result.presentModes = chooserCall.arg.presentModes
        /\ "VK_PRESENT_MODE_MAILBOX_KHR" \in Elements(chooserCall.arg.presentModes) =>
              "VK_PRESENT_MODE_MAILBOX_KHR" \in Elements(chooserCall.result.presentModes)

\* C28: in every frame, whether its acquire returned an image or failed, the
\* image index the frame records against and presents is a slot of the chain:
\* 0 <= index < number of chain images, which is the number of image views and
\* of framebuffers.
C28_IndexInChain ==
    /\ pc \in {"record", "submit", "present"} =>
          (0 <= imageIndex /\ imageIndex < NumImages)
    /\ commandBuffer.state = "executable" =>
          (0 <= commandBuffer.framebuffer /\ commandBuffer.framebuffer < NumImages)

\* C29: when cleanup has run, it has destroyed every object initWindow and
\* initVulkan created, each exactly once, and every object before the objects it
\* depends on (everything made from the device before the device, the device
\* and the surface before the instance, the instance before the window); and
\* cleanup has run only if initVulkan completed in full: after a stage of
\* initVulkan or a frame threw, nothing is destroyed.
C29_CleanupOrder ==
    /\ destroyed <=> destroyLog # <<>>
    /\ destroyLog # <<>> =>
          /\ swapChainImages # <<>>
          /\ driverFailure \notin SetupSteps
          /\ exitCode = EXIT_SUCCESS
          /\ Elements(destroyLog) = CreatedObjects
          /\ Len(destroyLog) = Cardinality(CreatedObjects)
          /\ \A dep \in DependsOn :
                \E j, k \in DOMAIN destroyLog :
                   /\ destroyLog[j] = dep[1]
                   /\ destroyLog[k] = dep[2]
                   /\ j < k
    /\ driverFailure \in SetupSteps => destroyLog = <<>>
    /\ exitCode = EXIT_FAILURE => destroyLog = <<>>

\* C29 witness: initVulkan completed, a frame was drawn, the window was closed
\* and cleanup has run.
C29_Witness ==
    /\ destroyed
    /\ frame >= 1
    /\ destroyLog = CleanupCalls
    /\ pc = "exit"

\* C30: with the GPU completing what it can and the presentation engine handing
\* out images and taking present requests, the frame loop makes progress: a
\* frame that has begun gets to the end of drawFrame (or throws), a fence
\* wait returns, and once the close request has been seen the loop exits, the
\* device-idle wait returns and cleanup completes.
C30_Progress ==
    /\ (pc \in FramePcs) ~> (pc \in {"loop", "exit"})
    /\ (pc = "waitFence") ~> (pc # "waitFence")
    /\ (pc = "loop" /\ shouldClose) ~> (pc = "exit" /\ destroyed)

=============================================================================
